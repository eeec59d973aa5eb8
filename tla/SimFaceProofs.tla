----------------------------- MODULE SimFaceProofs -----------------------------
(***************************************************************************)
(* The simulated faces together use the shared channel as its own          *)
(* specification allows, and what the ends of a link rely on holds: for    *)
(* any faces, profiles, hold rules and fault schedules.                    *)
(***************************************************************************)
EXTENDS SimFace, TLAPS, SequenceTheorems, FiniteSetTheorems

-----------------------------------------------------------------------------
(* The faces implement the shared channel.                                 *)

LEMMA NoSender == [s \in {} |-> Channel!Resting] = <<>>
  OBVIOUS

LEMMA ChannelInit == Init => Channel!Init
  BY NoSender DEF Init, Channel!Init

\* A frame that goes on the shared channel transmits at the clock's own instant.
LEMMA OnAirTransmits ==
  ASSUME NEW f \in Face, NEW z \in Sizes, OnAir(f, z), now' = now
  PROVE  [Channel!Next]_Channel!vars
  <1>1. WireCost(f, z) \in {WireCost(g, y) : g \in Face, y \in Sizes}
    OBVIOUS
  <1>2. CASE Profile[f].channel
    <2>1. Channel!TransmitNow(WireCost(f, z))
      BY <1>2 DEF OnAir, Channel!TransmitNow, Channel!Transmit
    <2> QED BY <1>1, <2>1 DEF Channel!Next
  <1>3. CASE ~Profile[f].channel
    BY <1>3 DEF OnAir, chan, Channel!vars
  <1> QED BY <1>2, <1>3

LEMMA RefusedTransmits ==
  ASSUME NEW f \in Face, NEW k, NEW z \in Sizes, SendRefused(f, k, z)
  PROVE  [Channel!Next]_Channel!vars
  <1>1. WireCost(f, z) \in {WireCost(g, y) : g \in Face, y \in Sizes}
    OBVIOUS
  <1>2. Channel!TransmitNow(WireCost(f, z))
    BY DEF SendRefused, Channel!TransmitNow, Channel!Transmit
  <1> QED BY <1>1, <1>2 DEF Channel!Next

LEMMA ChannelStep == [Next]_vars => [Channel!Next]_Channel!vars
  <1> SUFFICES ASSUME [Next]_vars PROVE [Channel!Next]_Channel!vars
    OBVIOUS
  <1> USE DEF chan, Channel!vars
  <1>1. ASSUME NEW f \in Face, NEW k \in Kinds, NEW z \in Sizes, SendDown(f, k, z)
        PROVE  [Channel!Next]_Channel!vars
    BY <1>1 DEF SendDown
  <1>2. ASSUME NEW f \in Face, NEW k \in Kinds, NEW z \in Sizes, SendRefused(f, k, z)
        PROVE  [Channel!Next]_Channel!vars
    BY <1>2, RefusedTransmits
  <1>3. ASSUME NEW f \in Face, NEW k \in Kinds, NEW z \in Sizes,
               SendLost(f, k, z) \/ SendInline(f, k, z) \/ SendDelayed(f, k, z)
        PROVE  [Channel!Next]_Channel!vars
    <2>1. OnAir(f, z) /\ now' = now
      BY <1>3 DEF SendLost, SendInline, SendDelayed, Accept
    <2> QED BY <2>1, OnAirTransmits
  <1>4. ASSUME NEW f \in Face, NEW st, Knob(f, st) PROVE [Channel!Next]_Channel!vars
    BY <1>4 DEF Knob
  <1>5. CASE Faults
    BY <1>4, <1>5 DEF Faults, SetDown, SetLoss, SetExtraDelay, SetHold, Reset, Close
  <1>6. CASE Deliveries
    BY <1>6 DEF Deliveries, Arrive, Recv
  <1>7. CASE Tick
    BY <1>7 DEF Tick, Channel!Next, Channel!Tick, Channel!chan
  <1>8. CASE UNCHANGED vars
    BY <1>8 DEF vars
  <1> QED BY <1>1, <1>2, <1>3, <1>5, <1>6, <1>7, <1>8 DEF Next, Send

\* Every behaviour of the faces is one of the shared channel: a frame transmits at the instant it
\* is sent, claims the medium or is refused, and nothing else touches the channel's state.
THEOREM FacesImplementChannel == Spec => ImplementsChannel
  BY ChannelInit, ChannelStep, PTL DEF Spec, ImplementsChannel, Channel!Spec

-----------------------------------------------------------------------------
(* The inductive invariant.                                                *)

Fates == {"down", "tail", "lost", "closed", "transit", "arrived"}

LogEntry == [face : Face, kind : Kinds, size : Sizes, at : Int, held : BOOLEAN, due : Int,
             fate : Fates]

HoldState == [matcher : Kinds \cup {"any"}, skip : Nat, count : Nat, delay : Nat,
              matched : Nat, held : Nat, since : Nat]

LinkKnobs == [down : BOOLEAN, loss : LossClass \cup {"profile"}, extra : ExtraDelays \cup {0},
              hold : HoldState \cup {NoHold}]

Types ==
    /\ now \in 0..MaxTime /\ busy \in Nat
    /\ link \in [Face -> LinkKnobs]
    /\ nextTx \in [Face -> Int] /\ last \in [Face -> Int]
    /\ log \in Seq(LogEntry)
    /\ queue \in [Face -> Seq(Nat)] /\ waiters \in [Face -> Seq(Nat)]
    /\ received \in [Face -> Seq(Nat)]
    /\ blocked \in [Face -> {0} \cup Ids] /\ open \in [Face -> BOOLEAN] /\ faults \in Nat
    /\ \A f \in Face : Len(queue[f]) <= Capacity

\* What has arrived at a face, in the order it is read.
Lined(r, q, w) == r \o q \o w
Seen(f) == Lined(received[f], queue[f], waiters[f])

ArrivedIn(lg, f) == {n \in 1..Len(lg) : lg[n].face = f /\ lg[n].fate = "arrived"}
CarriedIn(lg, f) == {n \in 1..Len(lg) : lg[n].face = f /\ lg[n].fate = "transit"}

SentOnly(s, A) == \A i \in 1..Len(s) : s[i] \in A
Ascending(s) == \A i, j \in 1..Len(s) : i < j => s[i] < s[j]
Ahead(s, n) == \A i \in 1..Len(s) : s[i] < n
EachOnce(s, A) == Len(s) = Cardinality(A) /\ \A n \in A : \E i \in 1..Len(s) : s[i] = n

\* One direction of a link, from what was read or waits to be read (s), what arrived (A) and
\* what is under way (T).
EndSound(stream, alive, s, A, T) ==
    /\ SentOnly(s, A)
    /\ stream => Ascending(s) /\ \A n \in T : Ahead(s, n)
    /\ alive => EachOnce(s, A)

Ends ==
    \A f \in Face : EndSound(Profile[f].reliable, open[f], Seen(f), ArrivedIn(log, f),
                             CarriedIn(log, f))

\* A frame under way is not overdue; on a stream each is due after the one before it.
OnTime(lg, at) == \A n \in 1..Len(lg) : lg[n].fate = "transit" => lg[n].due >= at

InTurn(lg, f, latest) ==
    \A n \in CarriedIn(lg, f) :
        /\ lg[n].due <= latest
        /\ \A m \in CarriedIn(lg, f) : m < n => lg[m].due < lg[n].due

Timely ==
    /\ OnTime(log, now)
    /\ \A f \in Face : Profile[f].reliable => InTurn(log, f, last[f])

\* The frames of face f that the rule h has matched since it was installed.
MatchedIn(lg, f, h) ==
    {n \in 1..Len(lg) : n > h.since /\ lg[n].face = f /\ lg[n].fate # "down" /\ Matches(h, lg[n].kind)}

\* How many members of M come before n.
Position(M, n) == Cardinality({m \in M : m < n})

InWindow(h, idx) == idx >= h.skip /\ idx < h.skip + h.count

\* The rule's counters agree with the frames it matched, and so does what it held.
Counted(lg, f, h) ==
    /\ h.since <= Len(lg) /\ h.matched = Cardinality(MatchedIn(lg, f, h))
    /\ h.held = IF h.matched <= h.skip THEN 0 ELSE MinOf(h.matched - h.skip, h.count)
    /\ \A n \in MatchedIn(lg, f, h) :
          lg[n].held <=> InWindow(h, Position(MatchedIn(lg, f, h), n))

HoldCounts == \A f \in Face : link[f].hold # NoHold => Counted(log, f, link[f].hold)

FaceInv == Types /\ Timely /\ Ends /\ HoldCounts

-----------------------------------------------------------------------------
(* The costs of a datagram.                                                *)

LEMMA QuotientNat == ASSUME NEW x \in Nat, NEW y \in Nat \ {0} PROVE x \div y \in Nat
  OBVIOUS

LEMMA ProductNat == ASSUME NEW x \in Nat, NEW y \in Nat PROVE x * y \in Nat
  OBVIOUS

LEMMA FragmentRoomPositive == ASSUME NEW mtu \in Nat PROVE PerFragment(mtu) \in Nat \ {0}
  <1>1. MaxOf(mtu - IPV4_HEADER, 0) \in Nat
    BY DEF MaxOf, IPV4_HEADER
  <1>2. MaxOf(mtu - IPV4_HEADER, 0) \div 8 \in Nat
    BY <1>1, QuotientNat
  <1> QED BY <1>2 DEF PerFragment, MaxOf

LEMMA CostTyped ==
  ASSUME NEW mtu \in Nat \cup {NoMtu}, NEW z \in Nat
  PROVE  Frames(mtu, z) \in Nat \ {0} /\ WireBytes(mtu, z) \in Nat
  <1>1. CASE mtu = NoMtu
    BY <1>1 DEF Frames, WireBytes
  <1>2. CASE mtu # NoMtu
    <2>1. PICK r \in Nat \ {0} : r = PerFragment(mtu)
      BY <1>2, FragmentRoomPositive
    <2>2. z + 8 + r - 1 \in Nat
      BY <2>1
    <2>3. (z + 8 + r - 1) \div r \in Nat
      BY <2>1, <2>2, QuotientNat
    <2>4. Frames(mtu, z) \in Nat \ {0}
      BY <1>2, <2>1, <2>3 DEF Frames, DivCeil, MaxOf, UDP_HEADER
    <2>5. Frames(mtu, z) * IPV4_HEADER \in Nat
      BY <2>4 DEF IPV4_HEADER
    <2>6. WireBytes(mtu, z) \in Nat
      BY <1>2, <2>5 DEF WireBytes, UDP_HEADER
    <2> QED BY <2>4, <2>6
  <1> QED BY <1>1, <1>2

\* What the shared channel assumes of its datagrams holds of every frame of every face.
THEOREM FramesAreDatagrams ==
  {WireCost(f, z) : f \in Face, z \in Sizes} \subseteq [frames : Nat \ {0}, bytes : Nat]
  <1>1. ASSUME NEW f \in Face, NEW z \in Sizes
        PROVE  WireCost(f, z) \in [frames : Nat \ {0}, bytes : Nat]
    <2>1. Profile[f].mtu \in Nat \cup {NoMtu} /\ z \in Nat
      BY ProfileAssumption, TrafficAssumption
    <2> QED BY <2>1, CostTyped DEF WireCost
  <1> QED BY <1>1

LEMMA AirtimeNat ==
  ASSUME NEW f \in Face, NEW z \in Sizes
  PROVE  Channel!Airtime(WireCost(f, z)) \in Nat /\ WireCost(f, z).bytes \in Nat
  <1>1. PICK c : c = WireCost(f, z)
    OBVIOUS
  <1>2. c.frames \in Nat /\ c.bytes \in Nat
    BY <1>1, FramesAreDatagrams
  <1>3. c.bytes * 8 \in Nat
    BY <1>2
  <1>4. (c.bytes * 8) * NsPerSec \in Nat
    BY <1>3, BoundsAssumption, ProductNat
  <1>5. (c.bytes * 8 * NsPerSec) \div RateBps \in Nat
    BY <1>4, BoundsAssumption, QuotientNat
  <1>6. FrameOverhead * c.frames \in Nat
    BY <1>2, BoundsAssumption, ProductNat
  <1> QED BY <1>1, <1>2, <1>5, <1>6 DEF Channel!Airtime

-----------------------------------------------------------------------------
(* Queues.                                                                 *)

Grows(s, e, t) == t = Append(s, e)

LEMMA HeadOfRest ==
  ASSUME NEW S, NEW q \in Seq(S), q # <<>>
  PROVE  Head(q) \in S /\ Tail(q) \in Seq(S) /\ q = <<Head(q)>> \o Tail(q)
  <1>1. Len(q) \in Nat \ {0}
    BY EmptySeq
  <1>2. Head(q) \in S /\ Tail(q) \in Seq(S) /\ Head(q) = q[1] /\ Tail(q) = SubSeq(q, 2, Len(q))
    BY <1>1, HeadTailProperties, TailIsSubSeq
  <1>3. 1 \in 1..Len(q) /\ Len(q) \in 1..Len(q) /\ 1 + 1 = 2
    BY <1>1
  <1>4. SubSeq(q, 1, Len(q)) = <<q[1]>> \o SubSeq(q, 1 + 1, Len(q))
    BY <1>3, SubSeqRecursiveFirst
  <1>5. SubSeq(q, 1, Len(q)) = q
    BY SubSeqFull
  <1> QED BY <1>2, <1>3, <1>4, <1>5, Zenon

\* Concatenation as an operator of its own, so that regrouping is rewriting.
Cat(s, t) == s \o t

LEMMA CatTyped ==
  ASSUME NEW S, NEW s \in Seq(S), NEW t \in Seq(S) PROVE Cat(s, t) \in Seq(S)
  BY ConcatProperties DEF Cat

LEMMA CatAssociative ==
  ASSUME NEW S, NEW s \in Seq(S), NEW t \in Seq(S), NEW u \in Seq(S)
  PROVE  Cat(Cat(s, t), u) = Cat(s, Cat(t, u))
  BY ConcatAssociative DEF Cat

LEMMA CatSingle ==
  ASSUME NEW S, NEW q \in Seq(S), NEW n \in S
  PROVE  Append(q, n) = Cat(q, <<n>>) /\ <<n>> \in Seq(S)
  <1>1. Append(q, n) = q \o <<n>>
    BY AppendIsConcat
  <1>2. <<n>> \in Seq(S)
    OBVIOUS
  <1> QED BY <1>1, <1>2, Zenon DEF Cat

\* A frame enters behind what has arrived, in the queue or behind the waiters.
LEMMA SeenEnters ==
  ASSUME NEW S, NEW r \in Seq(S), NEW q \in Seq(S), NEW w \in Seq(S), NEW n \in S
  PROVE  /\ w = <<>> => Grows(Lined(r, q, w), n, Lined(r, Append(q, n), w))
         /\ Grows(Lined(r, q, w), n, Lined(r, q, Append(w, n)))
  <1>1. PICK one : one = <<n>>
    OBVIOUS
  <1>2. PICK rq, rqw : rq = Cat(r, q) /\ rqw = Cat(rq, w)
    OBVIOUS
  <1>3. one \in Seq(S) /\ rq \in Seq(S) /\ rqw \in Seq(S) /\ Cat(q, one) \in Seq(S)
    <2>1. one \in Seq(S)
      BY <1>1
    <2>2. rq \in Seq(S)
      BY <1>2, CatTyped, Zenon
    <2> QED BY <1>2, <2>1, <2>2, CatTyped, Zenon
  <1>4. Append(q, n) = Cat(q, one) /\ Append(w, n) = Cat(w, one) /\ Append(rqw, n) = Cat(rqw, one)
    BY <1>1, <1>3, CatSingle
  <1>5. Cat(rq, Append(w, n)) = Append(rqw, n)
    BY <1>2, <1>3, <1>4, CatAssociative
  <1>6. ASSUME w = <<>> PROVE Cat(Cat(r, Append(q, n)), w) = Append(rqw, n)
    <2>1. Cat(r, Cat(q, one)) = Cat(rq, one) /\ Cat(r, Cat(q, one)) \in Seq(S)
      BY <1>2, <1>3, CatAssociative, CatTyped
    <2>2. Cat(Cat(r, Cat(q, one)), w) = Cat(r, Cat(q, one)) /\ rqw = rq
      BY <1>2, <1>3, <1>6, <2>1, ConcatEmptySeq DEF Cat
    <2> QED BY <1>4, <2>1, <2>2
  <1> QED BY <1>2, <1>5, <1>6 DEF Cat, Lined, Grows

\* Reading moves the oldest frame, and the first waiter behind the queue, and reorders nothing.
LEMMA SeenRead ==
  ASSUME NEW S, NEW r \in Seq(S), NEW q \in Seq(S), NEW w \in Seq(S), q # <<>>
  PROVE  /\ Lined(Append(r, Head(q)), Tail(q), w) = Lined(r, q, w)
         /\ w # <<>> => Lined(Append(r, Head(q)), Append(Tail(q), Head(w)), Tail(w)) = Lined(r, q, w)
  <1>1. PICK h, t, one : h = Head(q) /\ t = Tail(q) /\ one = <<h>>
    OBVIOUS
  <1>2. h \in S /\ t \in Seq(S) /\ q = Cat(one, t) /\ one \in Seq(S)
    BY <1>1, HeadOfRest DEF Cat
  <1>3. Append(r, h) = Cat(r, one) /\ Cat(r, one) \in Seq(S) /\ Cat(r, q) \in Seq(S)
    BY <1>1, <1>2, CatSingle, CatTyped
  <1>4. Cat(Cat(r, one), t) = Cat(r, q)
    BY <1>2, CatAssociative
  <1>5. ASSUME w # <<>>
        PROVE  Cat(Cat(Append(r, h), Append(t, Head(w))), Tail(w)) = Cat(Cat(r, q), w)
    <2>1. PICK x, u, one2 : x = Head(w) /\ u = Tail(w) /\ one2 = <<x>>
      OBVIOUS
    <2>2. x \in S /\ u \in Seq(S) /\ w = Cat(one2, u) /\ one2 \in Seq(S)
      BY <1>5, <2>1, HeadOfRest DEF Cat
    <2>3. Append(t, x) = Cat(t, one2)
      BY <1>2, <2>1, <2>2, CatSingle
    <2>4. Cat(Cat(r, one), Cat(t, one2)) = Cat(Cat(r, q), one2)
      BY <1>2, <1>3, <1>4, <2>2, CatAssociative
    <2>5. Cat(Cat(Cat(r, q), one2), u) = Cat(Cat(r, q), w)
      BY <1>3, <2>2, CatAssociative
    <2> QED BY <1>3, <2>1, <2>3, <2>4, <2>5
  <1> QED BY <1>1, <1>3, <1>4, <1>5 DEF Cat, Lined

-----------------------------------------------------------------------------
(* The log.                                                                *)

LEMMA LogAppends ==
  ASSUME NEW lg \in Seq(LogEntry), NEW e \in LogEntry, NEW lg2, Grows(lg, e, lg2)
  PROVE  /\ lg2 \in Seq(LogEntry) /\ Len(lg) \in Nat /\ Len(lg2) = Len(lg) + 1
         /\ \A n \in 1..Len(lg) : lg2[n] = lg[n] /\ lg[n] \in LogEntry
         /\ lg2[Len(lg) + 1] = e
         /\ 1..Len(lg2) = 1..Len(lg) \cup {Len(lg) + 1}
  BY AppendProperties, LenProperties, ElementOfSeq DEF Grows

Refated(lg, n, fate, lg2) == lg2 = [lg EXCEPT ![n].fate = fate]

LEMMA FateChanges ==
  ASSUME NEW lg \in Seq(LogEntry), NEW n \in 1..Len(lg), NEW fate \in Fates,
         NEW lg2, Refated(lg, n, fate, lg2)
  PROVE  /\ lg2 \in Seq(LogEntry) /\ Len(lg2) = Len(lg)
         /\ \A m \in 1..Len(lg) :
               /\ lg2[m].face = lg[m].face /\ lg2[m].kind = lg[m].kind /\ lg2[m].held = lg[m].held
               /\ lg2[m].due = lg[m].due
               /\ lg2[m].fate = IF m = n THEN fate ELSE lg[m].fate
  <1>1. PICK e : e = [lg[n] EXCEPT !.fate = fate]
    OBVIOUS
  <1>2. lg[n] \in LogEntry /\ Len(lg) \in Nat
    BY ElementOfSeq, LenProperties
  <1>3. e = [face |-> lg[n].face, kind |-> lg[n].kind, size |-> lg[n].size, at |-> lg[n].at,
             held |-> lg[n].held, due |-> lg[n].due, fate |-> fate]
    BY <1>1, <1>2 DEF LogEntry
  <1>4. e \in LogEntry
    BY <1>2, <1>3 DEF LogEntry
  <1>5. lg2 = [lg EXCEPT ![n] = e]
    BY <1>1 DEF Refated
  <1>6. /\ lg2 \in Seq(LogEntry) /\ Len(lg2) = Len(lg)
        /\ \A m \in 1..Len(lg) : lg2[m] = IF m = n THEN e ELSE lg[m]
    BY <1>4, <1>5, ExceptSeq
  <1> QED BY <1>3, <1>6

-----------------------------------------------------------------------------
(* The hold rule's counters.                                               *)

LEMMA FiniteMatched ==
  ASSUME NEW lg \in Seq(LogEntry), NEW f, NEW h
  PROVE  IsFiniteSet(MatchedIn(lg, f, h)) /\ Cardinality(MatchedIn(lg, f, h)) \in Nat
  <1>1. Len(lg) \in Int /\ 1 \in Int
    BY LenProperties
  <1>2. IsFiniteSet(1..Len(lg))
    BY <1>1, FS_Interval
  <1>3. MatchedIn(lg, f, h) \subseteq 1..Len(lg)
    BY DEF MatchedIn
  <1> QED BY <1>2, <1>3, FS_Subset, FS_CardinalityType

\* Frames the rule does not match, and the fates of frames, leave its counts alone.
LEMMA CountedSame ==
  ASSUME NEW lg, NEW lg2, NEW f, NEW h \in HoldState,
         Counted(lg, f, h), Len(lg) \in Nat, Len(lg2) \in Nat, Len(lg) <= Len(lg2),
         MatchedIn(lg2, f, h) = MatchedIn(lg, f, h),
         \A n \in MatchedIn(lg, f, h) : lg2[n].held = lg[n].held
  PROVE  Counted(lg2, f, h)
  <1>1. PICK M : M = MatchedIn(lg, f, h)
    OBVIOUS
  <1>2. h.since \in Nat
    BY DEF HoldState
  <1>3. \A n \in M : lg2[n].held <=> InWindow(h, Position(M, n))
    BY <1>1 DEF Counted
  <1>4. h.since <= Len(lg2)
    BY <1>2 DEF Counted
  <1> QED BY <1>1, <1>3, <1>4 DEF Counted

LEMMA CountedAppendOther ==
  ASSUME NEW lg \in Seq(LogEntry), NEW e \in LogEntry, NEW lg2, Grows(lg, e, lg2),
         NEW f, NEW h \in HoldState, Counted(lg, f, h),
         ~(e.face = f /\ e.fate # "down" /\ Matches(h, e.kind))
  PROVE  Counted(lg2, f, h)
  <1>1. /\ lg2 \in Seq(LogEntry) /\ Len(lg) \in Nat /\ Len(lg2) = Len(lg) + 1
        /\ \A n \in 1..Len(lg) : lg2[n] = lg[n]
        /\ lg2[Len(lg) + 1] = e
        /\ 1..Len(lg2) = 1..Len(lg) \cup {Len(lg) + 1}
    BY LogAppends
  <1>2. MatchedIn(lg2, f, h) = MatchedIn(lg, f, h)
    BY <1>1 DEF MatchedIn
  <1>3. \A n \in MatchedIn(lg, f, h) : lg2[n].held = lg[n].held
    BY <1>1 DEF MatchedIn
  <1>4. Len(lg) <= Len(lg2) /\ Len(lg2) \in Nat
    BY <1>1
  <1> QED BY <1>1, <1>2, <1>3, <1>4, CountedSame

\* A matched frame is held when it falls in the rule's window, and is counted.
LEMMA CountedAppendMatch ==
  ASSUME NEW lg \in Seq(LogEntry), NEW e \in LogEntry, NEW lg2, Grows(lg, e, lg2),
         NEW f, NEW h \in HoldState, Counted(lg, f, h),
         e.face = f, e.fate # "down", Matches(h, e.kind),
         NEW h2 \in HoldState,
         e.held <=> (h.matched >= h.skip /\ h.held < h.count),
         h2.matcher = h.matcher, h2.skip = h.skip, h2.count = h.count, h2.since = h.since,
         h2.matched = h.matched + 1, h2.held = IF e.held THEN h.held + 1 ELSE h.held
  PROVE  Counted(lg2, f, h2)
  <1>1. PICK L, M, M2 : L = Len(lg) /\ M = MatchedIn(lg, f, h) /\ M2 = MatchedIn(lg2, f, h2)
    OBVIOUS
  <1>2. /\ lg2 \in Seq(LogEntry) /\ L \in Nat /\ Len(lg2) = L + 1
        /\ \A n \in 1..L : lg2[n] = lg[n]
        /\ lg2[L + 1] = e
        /\ 1..Len(lg2) = 1..L \cup {L + 1}
    BY <1>1, LogAppends
  <1>3. /\ h.skip \in Nat /\ h.count \in Nat /\ h.matched \in Nat /\ h.held \in Nat /\ h.since \in Nat
    BY DEF HoldState
  <1>4. /\ h.since <= L /\ h.matched = Cardinality(M)
        /\ h.held = IF h.matched <= h.skip THEN 0 ELSE MinOf(h.matched - h.skip, h.count)
        /\ \A n \in M : lg[n].held <=> InWindow(h, Position(M, n))
    BY <1>1 DEF Counted
  <1>5. M2 = M \cup {L + 1} /\ M \subseteq 1..L
    BY <1>1, <1>2, <1>3, <1>4 DEF MatchedIn, Matches
  <1>6. IsFiniteSet(M) /\ L + 1 \notin M
    BY <1>1, <1>2, <1>5, FiniteMatched
  <1>7. Cardinality(M \cup {L + 1}) = Cardinality(M) + 1
    BY <1>6, FS_AddElement
  <1>8. Cardinality(M2) = h2.matched
    BY <1>4, <1>5, <1>7
  <1>9. h2.held = IF h2.matched <= h2.skip THEN 0 ELSE MinOf(h2.matched - h2.skip, h2.count)
    BY <1>3, <1>4 DEF MinOf
  <1>10. ASSUME NEW n \in M2 PROVE lg2[n].held <=> InWindow(h2, Position(M2, n))
    <2>1. CASE n \in M
      <3>1. {m \in M2 : m < n} = {m \in M : m < n}
        BY <1>2, <1>5, <2>1
      <3>2. lg2[n] = lg[n] /\ Position(M2, n) = Position(M, n)
        BY <1>2, <1>5, <2>1, <3>1 DEF Position
      <3>3. InWindow(h2, Position(M, n)) <=> InWindow(h, Position(M, n))
        BY DEF InWindow
      <3> QED BY <1>4, <2>1, <3>2, <3>3
    <2>2. CASE n = L + 1
      <3> HIDE <2>2
      <3>1. {m \in M2 : m < n} = M
        <4>1. \A m \in M : m \in M2 /\ m < n
          BY <1>2, <1>5, <2>2
        <4>2. \A m \in M2 : m < n => m \in M
          BY <1>2, <1>5, <2>2
        <4> QED BY <4>1, <4>2
      <3>2. Position(M2, n) = h.matched
        BY <1>4, <3>1 DEF Position
      <3>3. h.held < h.count /\ h.matched >= h.skip <=> h.matched >= h.skip /\ h.matched < h.skip + h.count
        BY <1>3, <1>4 DEF MinOf
      <3>4. lg2[n] = e
        BY <1>2, <2>2
      <3> QED BY <3>2, <3>3, <3>4 DEF InWindow
    <2> QED BY <1>5, <1>10, <2>1, <2>2
  <1>11. h2.since <= Len(lg2)
    BY <1>2, <1>3, <1>4
  <1> QED BY <1>1, <1>8, <1>9, <1>10, <1>11 DEF Counted

\* A rule just installed has matched nothing.
LEMMA CountedNew ==
  ASSUME NEW lg \in Seq(LogEntry), NEW f, NEW h \in HoldState,
         h.since = Len(lg), h.matched = 0, h.held = 0
  PROVE  Counted(lg, f, h)
  <1>1. Len(lg) \in Nat /\ h.skip \in Nat
    BY LenProperties DEF HoldState
  <1>2. MatchedIn(lg, f, h) = {}
    BY <1>1 DEF MatchedIn
  <1> QED BY <1>1, <1>2, FS_EmptySet DEF Counted
-----------------------------------------------------------------------------
(* What a direction of a link goes through.                                *)

LEMMA EndSettles ==
  ASSUME NEW stream, NEW alive, NEW s, NEW A, NEW T, EndSound(stream, alive, s, A, T),
         NEW T2, T2 \subseteq T
  PROVE  EndSound(stream, alive, s, A, T2)
  BY DEF EndSound

\* A frame goes under way: it was sent after every frame that has arrived.
LEMMA EndDeparts ==
  ASSUME NEW stream, NEW alive, NEW s \in Seq(Nat), NEW A, NEW T,
         EndSound(stream, alive, s, A, T), NEW n \in Nat, \A a \in A : a < n
  PROVE  EndSound(stream, alive, s, A, T \cup {n})
  <1>1. Ahead(s, n)
    BY DEF EndSound, SentOnly, Ahead
  <1> QED BY <1>1 DEF EndSound

\* A frame arrives: on a stream, behind what has arrived and before what is under way.
LEMMA EndArrives ==
  ASSUME NEW stream, NEW alive, NEW s \in Seq(Nat), NEW A, IsFiniteSet(A), NEW T,
         EndSound(stream, alive, s, A, T), NEW n \in Nat, n \notin A, NEW s2, Grows(s, n, s2),
         NEW T2, T2 \subseteq T, T2 \subseteq Nat,
         stream => Ahead(s, n) /\ \A m \in T2 : n < m
  PROVE  EndSound(stream, alive, s2, A \cup {n}, T2)
  <1>1. PICK L : L = Len(s)
    OBVIOUS
  <1>2. /\ s2 \in Seq(Nat) /\ L \in Nat /\ Len(s2) = L + 1
        /\ \A i \in 1..L : s2[i] = s[i]
        /\ s2[L + 1] = n
        /\ 1..Len(s2) = 1..L \cup {L + 1}
    BY <1>1, AppendProperties, LenProperties DEF Grows
  <1>3. SentOnly(s2, A \cup {n})
    BY <1>1, <1>2 DEF EndSound, SentOnly
  <1>4. ASSUME stream PROVE Ascending(s2) /\ \A m \in T2 : Ahead(s2, m)
    <2>1. Ascending(s) /\ Ahead(s, n) /\ (\A m \in T2 : n < m /\ Ahead(s, m))
      BY <1>4 DEF EndSound
    <2>2. Ascending(s2)
      <3>1. ASSUME NEW i \in 1..Len(s2), NEW j \in 1..Len(s2), i < j PROVE s2[i] < s2[j]
        <4>1. CASE j \in 1..L
          BY <1>1, <1>2, <2>1, <3>1, <4>1 DEF Ascending
        <4>2. CASE j = L + 1
          BY <1>1, <1>2, <2>1, <3>1, <4>2 DEF Ahead
        <4> QED BY <1>2, <4>1, <4>2
      <3> QED BY <3>1 DEF Ascending
    <2>3. \A m \in T2 : Ahead(s2, m)
      BY <1>1, <1>2, <2>1 DEF Ahead
    <2> QED BY <2>2, <2>3
  <1>5. ASSUME alive PROVE EachOnce(s2, A \cup {n})
    <2>1. L = Cardinality(A) /\ \A a \in A : \E i \in 1..L : s[i] = a
      BY <1>1, <1>5 DEF EndSound, EachOnce
    <2>2. Cardinality(A \cup {n}) = Cardinality(A) + 1
      BY FS_AddElement
    <2>3. \A a \in A \cup {n} : \E i \in 1..Len(s2) : s2[i] = a
      BY <1>2, <2>1
    <2> QED BY <1>2, <2>1, <2>2, <2>3 DEF EachOnce
  <1> QED BY <1>1, <1>3, <1>4, <1>5 DEF EndSound

\* The far end closes: what was read stays read.
LEMMA EndCloses ==
  ASSUME NEW stream, NEW alive, NEW r \in Seq(Nat), NEW u \in Seq(Nat), NEW A, NEW T,
         NEW s, s = Cat(r, u), EndSound(stream, alive, s, A, T)
  PROVE  EndSound(stream, FALSE, r, A, T)
  <1>1. PICK L : L = Len(r)
    OBVIOUS
  <1>2. L \in Nat /\ Len(u) \in Nat /\ Len(s) = L + Len(u) /\ \A i \in 1..L : s[i] = r[i]
    <2>1. s = r \o u
      BY DEF Cat
    <2> QED BY <1>1, <2>1, ConcatProperties, LenProperties
  <1>3. EndSound(stream, alive, s, A, T) /\ 1..L \subseteq 1..Len(s)
    BY <1>1, <1>2
  <1>4. SentOnly(r, A)
    BY <1>1, <1>2, <1>3 DEF EndSound, SentOnly
  <1>5. ASSUME stream PROVE Ascending(r) /\ \A m \in T : Ahead(r, m)
    BY <1>1, <1>2, <1>3, <1>5 DEF EndSound, Ascending, Ahead
  <1> QED BY <1>4, <1>5 DEF EndSound

-----------------------------------------------------------------------------
(* What the log says after a step.                                         *)

LEMMA LogGrows ==
  ASSUME NEW lg \in Seq(LogEntry), NEW e \in LogEntry, NEW lg2, Grows(lg, e, lg2), NEW f
  PROVE  /\ e.face = f /\ e.fate = "arrived" => ArrivedIn(lg2, f) = ArrivedIn(lg, f) \cup {Len(lg) + 1}
         /\ ~(e.face = f /\ e.fate = "arrived") => ArrivedIn(lg2, f) = ArrivedIn(lg, f)
         /\ e.face = f /\ e.fate = "transit" => CarriedIn(lg2, f) = CarriedIn(lg, f) \cup {Len(lg) + 1}
         /\ ~(e.face = f /\ e.fate = "transit") => CarriedIn(lg2, f) = CarriedIn(lg, f)
  <1>1. /\ Len(lg) \in Nat
        /\ \A n \in 1..Len(lg) : lg2[n] = lg[n]
        /\ lg2[Len(lg) + 1] = e
        /\ 1..Len(lg2) = 1..Len(lg) \cup {Len(lg) + 1}
    BY LogAppends
  <1>2. CASE e.face = f
    BY <1>1, <1>2 DEF ArrivedIn, CarriedIn
  <1>3. CASE e.face # f
    BY <1>1, <1>3 DEF ArrivedIn, CarriedIn
  <1> QED BY <1>2, <1>3

LEMMA IdsFinite ==
  ASSUME NEW lg \in Seq(LogEntry), NEW f
  PROVE  /\ IsFiniteSet(ArrivedIn(lg, f)) /\ ArrivedIn(lg, f) \subseteq Nat
         /\ CarriedIn(lg, f) \subseteq Nat /\ Len(lg) \in Nat
         /\ \A n \in ArrivedIn(lg, f) : n < Len(lg) + 1
         /\ \A n \in CarriedIn(lg, f) : n < Len(lg) + 1
  <1>1. Len(lg) \in Nat /\ Len(lg) \in Int /\ 1 \in Int
    BY LenProperties
  <1>2. IsFiniteSet(1..Len(lg))
    BY <1>1, FS_Interval
  <1>3. ArrivedIn(lg, f) \subseteq 1..Len(lg) /\ CarriedIn(lg, f) \subseteq 1..Len(lg)
    BY DEF ArrivedIn, CarriedIn
  <1>4. IsFiniteSet(ArrivedIn(lg, f))
    BY <1>2, <1>3, FS_Subset
  <1> QED BY <1>1, <1>3, <1>4

LEMMA InTurnGrows ==
  ASSUME NEW lg \in Seq(LogEntry), NEW e \in LogEntry, NEW lg2, Grows(lg, e, lg2),
         NEW f, NEW old \in Int, NEW new \in Int, InTurn(lg, f, old), new >= old,
         e.face = f /\ e.fate = "transit" => e.due > old /\ new >= e.due
  PROVE  InTurn(lg2, f, new)
  <1>1. PICK C, C2, L : C = CarriedIn(lg, f) /\ C2 = CarriedIn(lg2, f) /\ L = Len(lg)
    OBVIOUS
  <1>2. /\ e.face = f /\ e.fate = "transit" => C2 = C \cup {L + 1}
        /\ ~(e.face = f /\ e.fate = "transit") => C2 = C
    BY <1>1, LogGrows
  <1>3. /\ L \in Nat /\ C \subseteq 1..L /\ lg2[L + 1] = e
        /\ \A n \in C : lg2[n] = lg[n] /\ lg[n] \in LogEntry
    BY <1>1, LogAppends DEF CarriedIn
  <1>4. \A n \in C : lg[n].due \in Int
    BY <1>3 DEF LogEntry
  <1>5. \A n \in C : lg[n].due <= old /\ \A m \in C : m < n => lg[m].due < lg[n].due
    BY <1>1 DEF InTurn
  <1>6. e.due \in Int
    BY DEF LogEntry
  <1>7. ASSUME NEW n \in C2
        PROVE  lg2[n].due <= new /\ \A m \in C2 : m < n => lg2[m].due < lg2[n].due
    <2>1. CASE n \in C
      <3>1. \A m \in C2 : m < n => m \in C
        BY <1>2, <1>3, <2>1
      <3>2. lg[n].due \in Int /\ lg[n].due <= old /\ lg2[n].due = lg[n].due
        BY <1>3, <1>4, <1>5, <2>1
      <3>3. ASSUME NEW m \in C2, m < n PROVE lg2[m].due < lg2[n].due
        <4>1. m \in C /\ lg2[m].due = lg[m].due
          BY <1>3, <3>1, <3>3
        <4> QED BY <1>5, <2>1, <3>2, <3>3, <4>1
      <3>4. lg2[n].due <= new
        BY <3>2
      <3> QED BY <3>3, <3>4
    <2>2. CASE n \notin C
      <3>1. n = L + 1 /\ e.face = f /\ e.fate = "transit" /\ lg2[n] = e
        BY <1>2, <1>3, <1>7, <2>2
      <3>2. \A m \in C2 : m < n => m \in C
        BY <1>2, <1>3, <3>1
      <3>3. ASSUME NEW m \in C2, m < n PROVE lg2[m].due < lg2[n].due
        <4>1. m \in C /\ lg2[m].due = lg[m].due /\ lg[m].due \in Int /\ lg[m].due <= old
          BY <1>3, <1>4, <1>5, <3>2, <3>3
        <4>2. lg2[n].due = e.due /\ e.due > old
          BY <3>1
        <4> QED BY <1>6, <4>1, <4>2
      <3>4. lg2[n].due <= new
        BY <1>6, <3>1
      <3> QED BY <3>3, <3>4
    <2> QED BY <2>1, <2>2
  <1> QED BY <1>1, <1>7 DEF InTurn

LEMMA OnTimeGrows ==
  ASSUME NEW lg \in Seq(LogEntry), NEW e \in LogEntry, NEW lg2, Grows(lg, e, lg2),
         NEW at, OnTime(lg, at), e.fate = "transit" => e.due >= at
  PROVE  OnTime(lg2, at)
  BY LogAppends DEF OnTime
-----------------------------------------------------------------------------
(* The steps that move frames.                                             *)

LEMMA SeenTyped == ASSUME Types, NEW f \in Face PROVE Seen(f) \in Seq(Nat)
  <1>1. received[f] \in Seq(Nat) /\ queue[f] \in Seq(Nat) /\ waiters[f] \in Seq(Nat)
    BY DEF Types
  <1>2. Cat(Cat(received[f], queue[f]), waiters[f]) \in Seq(Nat)
    BY <1>1, CatTyped
  <1> QED BY <1>2 DEF Cat, Lined, Seen

LEMMA FrameEnters ==
  ASSUME Types, NEW f \in Face, NEW n \in Nat, Enter(f, n), UNCHANGED received
  PROVE  /\ queue' \in [Face -> Seq(Nat)] /\ waiters' \in [Face -> Seq(Nat)]
         /\ \A g \in Face : Len(queue'[g]) <= Capacity
         /\ Grows(Seen(f), n, Seen(f)')
         /\ \A g \in Face \ {f} : Seen(g)' = Seen(g)
  <1>1. PICK r, q, w : r = received[f] /\ q = queue[f] /\ w = waiters[f]
    OBVIOUS
  <1>2. r \in Seq(Nat) /\ q \in Seq(Nat) /\ w \in Seq(Nat) /\ received'[f] = r
    BY <1>1 DEF Types
  <1>3. /\ w = <<>> => Grows(Lined(r, q, w), n, Lined(r, Append(q, n), w))
        /\ Grows(Lined(r, q, w), n, Lined(r, q, Append(w, n)))
    BY <1>2, SeenEnters
  <1>4. Append(q, n) \in Seq(Nat) /\ Len(Append(q, n)) = Len(q) + 1 /\ Append(w, n) \in Seq(Nat)
    BY <1>2, AppendProperties
  <1>5. CASE Room(f)
    <2>1. queue' = [queue EXCEPT ![f] = Append(q, n)] /\ waiters' = waiters /\ w = <<>>
          /\ Len(q) < Capacity
      BY <1>1, <1>5 DEF Enter, Room
    <2>2. queue'[f] = Append(q, n) /\ waiters'[f] = w
      BY <1>1, <2>1 DEF Types
    <2>3. Grows(Seen(f), n, Seen(f)')
      BY <1>1, <1>2, <1>3, <2>1, <2>2 DEF Seen
    <2>4. \A g \in Face \ {f} : Seen(g)' = Seen(g)
      BY <2>1 DEF Seen, Types
    <2>5. Len(q) + 1 <= Capacity
      BY <1>2, <2>1, BoundsAssumption, LenProperties
    <2>6. queue' \in [Face -> Seq(Nat)] /\ \A g \in Face : Len(queue'[g]) <= Capacity
      BY <1>4, <2>1, <2>5 DEF Types
    <2> QED BY <2>1, <2>3, <2>4, <2>6 DEF Types
  <1>6. CASE ~Room(f)
    <2>1. waiters' = [waiters EXCEPT ![f] = Append(w, n)] /\ queue' = queue
      BY <1>1, <1>6 DEF Enter
    <2>2. waiters'[f] = Append(w, n) /\ queue'[f] = q
      BY <1>1, <2>1 DEF Types
    <2>3. Grows(Seen(f), n, Seen(f)')
      BY <1>1, <1>2, <1>3, <2>1, <2>2 DEF Seen
    <2>4. \A g \in Face \ {f} : Seen(g)' = Seen(g)
      BY <2>1 DEF Seen, Types
    <2>5. waiters' \in [Face -> Seq(Nat)]
      BY <1>4, <2>1 DEF Types
    <2> QED BY <2>1, <2>3, <2>4, <2>5 DEF Types
  <1> QED BY <1>5, <1>6

LEMMA TimelyGrows ==
  ASSUME Types, Timely, NEW e \in LogEntry, Grows(log, e, log'), now' = now,
         last' \in [Face -> Int], \A f \in Face : last'[f] >= last[f],
         e.fate = "transit" => /\ e.due >= now
                               /\ Profile[e.face].reliable => e.due > last[e.face] /\ last'[e.face] >= e.due
  PROVE  Timely'
  <1>1. log \in Seq(LogEntry)
    BY DEF Types
  <1>2. OnTime(log', now)
    BY <1>1, OnTimeGrows DEF Timely
  <1>3. ASSUME NEW f \in Face, Profile[f].reliable PROVE InTurn(log', f, last'[f])
    <2>1. last[f] \in Int /\ last'[f] \in Int /\ last'[f] >= last[f] /\ InTurn(log, f, last[f])
      BY <1>3 DEF Types, Timely
    <2>2. e.face = f /\ e.fate = "transit" => e.due > last[f] /\ last'[f] >= e.due
      BY <1>3
    <2> QED BY <1>1, <2>1, <2>2, InTurnGrows
  <1> QED BY <1>2, <1>3 DEF Timely

\* The frame is dropped, refused, lost or finds the far end closed.
LEMMA SettleStep ==
  ASSUME Types, Ends, NEW e \in LogEntry, Grows(log, e, log'), e.fate \notin {"arrived", "transit"},
         UNCHANGED <<received, queue, waiters, open>>
  PROVE  Ends'
  <1>1. ASSUME NEW f \in Face
        PROVE  EndSound(Profile[f].reliable, open'[f], Seen(f)', ArrivedIn(log', f), CarriedIn(log', f))
    <2>1. ArrivedIn(log', f) = ArrivedIn(log, f) /\ CarriedIn(log', f) = CarriedIn(log, f)
      BY LogGrows DEF Types
    <2>2. Seen(f)' = Seen(f) /\ open'[f] = open[f]
      BY DEF Seen
    <2> QED BY <2>1, <2>2 DEF Ends
  <1> QED BY <1>1 DEF Ends

\* The frame goes under way.
LEMMA DepartStep ==
  ASSUME Types, Ends, NEW e \in LogEntry, Grows(log, e, log'), e.fate = "transit",
         UNCHANGED <<received, queue, waiters, open>>
  PROVE  Ends'
  <1>1. ASSUME NEW f \in Face
        PROVE  EndSound(Profile[f].reliable, open'[f], Seen(f)', ArrivedIn(log', f), CarriedIn(log', f))
    <2>1. log \in Seq(LogEntry)
      BY DEF Types
    <2>2. /\ ArrivedIn(log', f) = ArrivedIn(log, f)
          /\ e.face = f => CarriedIn(log', f) = CarriedIn(log, f) \cup {Len(log) + 1}
          /\ e.face # f => CarriedIn(log', f) = CarriedIn(log, f)
      BY <2>1, LogGrows
    <2>3. Seen(f)' = Seen(f) /\ open'[f] = open[f]
      BY DEF Seen
    <2>4. EndSound(Profile[f].reliable, open[f], Seen(f), ArrivedIn(log, f), CarriedIn(log, f))
      BY DEF Ends
    <2>5. Len(log) + 1 \in Nat /\ \A a \in ArrivedIn(log, f) : a < Len(log) + 1
      BY <2>1, IdsFinite
    <2>6. EndSound(Profile[f].reliable, open[f], Seen(f), ArrivedIn(log, f),
                   CarriedIn(log, f) \cup {Len(log) + 1})
      BY <2>4, <2>5, SeenTyped, EndDeparts
    <2> QED BY <2>2, <2>3, <2>4, <2>6
  <1> QED BY <1>1 DEF Ends

\* The frame is delivered within the call that sends it: on a stream, nothing is under way then.
LEMMA InlineStep ==
  ASSUME Types, Timely, Ends, NEW e \in LogEntry, Grows(log, e, log'), e.fate = "arrived",
         Enter(e.face, Len(log) + 1), UNCHANGED <<received, open>>,
         Profile[e.face].reliable => e.due > last[e.face], e.due <= now
  PROVE  Ends'
  <1>1. log \in Seq(LogEntry) /\ e.face \in Face /\ e.due \in Int /\ now \in Int
    BY DEF Types, LogEntry
  <1>2. ASSUME NEW f \in Face
        PROVE  EndSound(Profile[f].reliable, open'[f], Seen(f)', ArrivedIn(log', f), CarriedIn(log', f))
    <2>1. /\ CarriedIn(log', f) = CarriedIn(log, f)
          /\ e.face = f => ArrivedIn(log', f) = ArrivedIn(log, f) \cup {Len(log) + 1}
          /\ e.face # f => ArrivedIn(log', f) = ArrivedIn(log, f)
      BY <1>1, LogGrows
    <2>2. EndSound(Profile[f].reliable, open[f], Seen(f), ArrivedIn(log, f), CarriedIn(log, f))
      BY DEF Ends
    <2>3. /\ IsFiniteSet(ArrivedIn(log, f)) /\ CarriedIn(log, f) \subseteq Nat /\ Len(log) + 1 \in Nat
          /\ \A a \in ArrivedIn(log, f) : a < Len(log) + 1
      BY <1>1, IdsFinite
    <2>4. e.face # f => Seen(f)' = Seen(f)
      BY <1>1, <2>3, FrameEnters
    <2>5. CASE e.face = f
      <3>1. Grows(Seen(f), Len(log) + 1, Seen(f)')
        BY <1>1, <2>3, <2>5, FrameEnters
      <3>2. Len(log) + 1 \notin ArrivedIn(log, f)
        BY <2>3
      <3>3. ASSUME Profile[f].reliable
            PROVE  Ahead(Seen(f), Len(log) + 1) /\ \A m \in CarriedIn(log, f) : Len(log) + 1 < m
        <4>1. Ahead(Seen(f), Len(log) + 1)
          BY <2>2, <2>3 DEF EndSound, SentOnly, Ahead
        <4>2. ASSUME NEW m \in CarriedIn(log, f) PROVE FALSE
          <5>1. log[m].due <= last[f] /\ log[m].due >= now /\ log[m] \in LogEntry /\ last[f] \in Int
            BY <1>1, <3>3, <4>2, ElementOfSeq DEF Timely, OnTime, InTurn, CarriedIn, Types
          <5>2. log[m].due \in Int
            BY <5>1 DEF LogEntry
          <5> QED BY <1>1, <2>5, <3>3, <5>1, <5>2
        <4> QED BY <4>1, <4>2
      <3>4. EndSound(Profile[f].reliable, open[f], Seen(f)', ArrivedIn(log, f) \cup {Len(log) + 1},
                     CarriedIn(log, f))
        BY <2>2, <2>3, <3>1, <3>2, <3>3, SeenTyped, EndArrives
      <3> QED BY <2>1, <2>5, <3>4
    <2> QED BY <2>1, <2>2, <2>4, <2>5
  <1> QED BY <1>2 DEF Ends
\* A frame under way arrives or finds the far end closed: nothing else in the log changes.
Settles(lg, n, fate, lg2) ==
    /\ n \in 1..Len(lg) /\ lg[n].fate = "transit" /\ fate \in {"arrived", "closed"}
    /\ Refated(lg, n, fate, lg2)

LEMMA FateSettles ==
  ASSUME NEW lg \in Seq(LogEntry), NEW n, NEW fate, NEW lg2, Settles(lg, n, fate, lg2)
  PROVE  /\ lg2 \in Seq(LogEntry) /\ Len(lg2) = Len(lg)
         /\ \A m \in 1..Len(lg) :
              /\ lg2[m].face = lg[m].face /\ lg2[m].kind = lg[m].kind /\ lg2[m].held = lg[m].held
              /\ lg2[m].due = lg[m].due
              /\ lg2[m].fate = IF m = n THEN fate ELSE lg[m].fate
  <1>1. fate \in Fates /\ n \in 1..Len(lg) /\ Refated(lg, n, fate, lg2)
    BY DEF Fates, Settles
  <1> QED BY <1>1, FateChanges

LEMMA FateMoves ==
  ASSUME NEW lg \in Seq(LogEntry), NEW n, NEW fate, NEW lg2, Settles(lg, n, fate, lg2), NEW f
  PROVE  /\ CarriedIn(lg2, f) = CarriedIn(lg, f) \ {n}
         /\ lg[n].face = f /\ fate = "arrived" => ArrivedIn(lg2, f) = ArrivedIn(lg, f) \cup {n}
         /\ ~(lg[n].face = f /\ fate = "arrived") => ArrivedIn(lg2, f) = ArrivedIn(lg, f)
  <1>1. /\ Len(lg2) = Len(lg)
        /\ \A m \in 1..Len(lg) : /\ lg2[m].face = lg[m].face
                                 /\ lg2[m].fate = IF m = n THEN fate ELSE lg[m].fate
    BY FateSettles
  <1>2. CarriedIn(lg2, f) = CarriedIn(lg, f) \ {n}
    BY <1>1 DEF CarriedIn, Settles
  <1>3. CASE lg[n].face = f /\ fate = "arrived"
    BY <1>1, <1>2, <1>3 DEF ArrivedIn, Settles
  <1>4. CASE ~(lg[n].face = f /\ fate = "arrived")
    BY <1>1, <1>2, <1>4 DEF ArrivedIn, Settles
  <1> QED BY <1>3, <1>4

LEMMA FateOnTime ==
  ASSUME NEW lg \in Seq(LogEntry), NEW n, NEW fate, NEW lg2, Settles(lg, n, fate, lg2), NEW at, OnTime(lg, at)
  PROVE  OnTime(lg2, at)
  <1>1. Len(lg2) = Len(lg) /\ \A m \in 1..Len(lg) : /\ lg2[m].due = lg[m].due
                              /\ lg2[m].fate = IF m = n THEN fate ELSE lg[m].fate
    BY FateSettles
  <1> QED BY <1>1 DEF OnTime, Settles

LEMMA FateInTurn ==
  ASSUME NEW lg \in Seq(LogEntry), NEW n, NEW fate, NEW lg2, Settles(lg, n, fate, lg2), NEW f, NEW latest,
         InTurn(lg, f, latest)
  PROVE  InTurn(lg2, f, latest)
  <1>1. /\ CarriedIn(lg2, f) = CarriedIn(lg, f) \ {n}
        /\ \A m \in 1..Len(lg) : lg2[m].due = lg[m].due
    BY FateSettles, FateMoves
  <1>2. \A m \in CarriedIn(lg2, f) : m \in CarriedIn(lg, f) /\ lg2[m].due = lg[m].due
    BY <1>1 DEF CarriedIn
  <1> QED BY <1>2 DEF InTurn

LEMMA FateMatched ==
  ASSUME NEW lg \in Seq(LogEntry), NEW n, NEW fate, NEW lg2, Settles(lg, n, fate, lg2), NEW f, NEW h
  PROVE  MatchedIn(lg2, f, h) = MatchedIn(lg, f, h)
  <1>1. /\ Len(lg2) = Len(lg)
        /\ \A m \in 1..Len(lg) : /\ lg2[m].face = lg[m].face /\ lg2[m].kind = lg[m].kind
                                 /\ lg2[m].fate = IF m = n THEN fate ELSE lg[m].fate
    BY FateSettles
  <1>2. \A m \in 1..Len(lg) : lg2[m].fate # "down" <=> lg[m].fate # "down"
    BY <1>1 DEF Settles
  <1> QED BY <1>1, <1>2 DEF MatchedIn

\* The earliest frame is delivered first, and on a stream that is the one sent first.
LEMMA FirstInTurn ==
  ASSUME Types, Timely, NEW n \in InTransit, \A m \in InTransit \ {n} : Sooner(n, m),
         Profile[log[n].face].reliable
  PROVE  \A m \in CarriedIn(log, log[n].face) \ {n} : n < m
  <1>1. PICK f : f = log[n].face
    OBVIOUS
  <1>2. log \in Seq(LogEntry) /\ Len(log) \in Nat /\ n \in CarriedIn(log, f) /\ f \in Face
    <2>1. log \in Seq(LogEntry) /\ n \in 1..Len(log)
      BY DEF Types, InTransit
    <2>2. log[n] \in LogEntry /\ Len(log) \in Nat
      BY <2>1, ElementOfSeq, LenProperties
    <2> QED BY <1>1, <2>1, <2>2 DEF InTransit, CarriedIn, LogEntry
  <1>3. InTurn(log, f, last[f])
    BY <1>1, <1>2 DEF Timely
  <1>4. ASSUME NEW m \in CarriedIn(log, f) \ {n} PROVE n < m
    <2>1. m \in InTransit \ {n} /\ m \in Nat /\ n \in Nat
      BY <1>2 DEF CarriedIn, InTransit
    <2>2. Sooner(n, m)
      BY <2>1
    <2>3. log[n] \in LogEntry /\ log[m] \in LogEntry
      BY <1>2, <2>1, ElementOfSeq DEF InTransit
    <2>4. log[n].due \in Int /\ log[m].due \in Int
      BY <2>3 DEF LogEntry
    <2>5. m < n => log[m].due < log[n].due
      BY <1>2, <1>3 DEF InTurn
    <2> QED BY <2>1, <2>2, <2>4, <2>5 DEF Sooner
  <1> QED BY <1>1, <1>4

LEMMA ArriveStep ==
  ASSUME Types, Timely, Ends, HoldCounts, NEW n, Arrive(n)
  PROVE  Types' /\ Timely' /\ Ends' /\ HoldCounts'
  <1>1. PICK f, fate : f = log[n].face /\ fate = IF open[f] THEN "arrived" ELSE "closed"
    OBVIOUS
  <1>2. /\ log \in Seq(LogEntry) /\ n \in 1..Len(log) /\ log[n].fate = "transit" /\ n \in InTransit
        /\ log' = [log EXCEPT ![n].fate = fate] /\ fate \in {"arrived", "closed"}
        /\ UNCHANGED <<now, chan, link, nextTx, last, blocked, received, open, faults>>
    BY <1>1 DEF Arrive, InTransit, Types
  <1>3. f \in Face /\ n \in Nat
    <2>1. log[n] \in LogEntry
      BY <1>2, ElementOfSeq
    <2> QED BY <1>1, <1>2, <2>1, LenProperties DEF LogEntry
  <1>4. /\ log' \in Seq(LogEntry) /\ Len(log') = Len(log)
        /\ \A g : /\ CarriedIn(log', g) = CarriedIn(log, g) \ {n}
                  /\ f = g /\ fate = "arrived" => ArrivedIn(log', g) = ArrivedIn(log, g) \cup {n}
                  /\ ~(f = g /\ fate = "arrived") => ArrivedIn(log', g) = ArrivedIn(log, g)
        /\ \A at : OnTime(log, at) => OnTime(log', at)
        /\ \A g, latest : InTurn(log, g, latest) => InTurn(log', g, latest)
        /\ \A g, h : MatchedIn(log', g, h) = MatchedIn(log, g, h)
        /\ \A m \in 1..Len(log) : log'[m].held = log[m].held
    <2>0. PICK lg, lg2 : lg = log /\ lg2 = log'
      OBVIOUS
    <2>1. Settles(lg, n, fate, lg2) /\ lg \in Seq(LogEntry)
      BY <1>2, <2>0 DEF Refated, Settles
    <2>2. lg2 \in Seq(LogEntry) /\ Len(lg2) = Len(lg) /\ \A m \in 1..Len(lg) : lg2[m].held = lg[m].held
      BY <2>1, FateSettles
    <2>3. ASSUME NEW g
          PROVE  /\ CarriedIn(lg2, g) = CarriedIn(lg, g) \ {n}
                 /\ f = g /\ fate = "arrived" => ArrivedIn(lg2, g) = ArrivedIn(lg, g) \cup {n}
                 /\ ~(f = g /\ fate = "arrived") => ArrivedIn(lg2, g) = ArrivedIn(lg, g)
      <3>1. /\ CarriedIn(lg2, g) = CarriedIn(lg, g) \ {n}
            /\ lg[n].face = g /\ fate = "arrived" => ArrivedIn(lg2, g) = ArrivedIn(lg, g) \cup {n}
            /\ ~(lg[n].face = g /\ fate = "arrived") => ArrivedIn(lg2, g) = ArrivedIn(lg, g)
        BY <2>1, FateMoves
      <3> QED BY <1>1, <2>0, <3>1, Zenon
    <2>4. ASSUME NEW at, OnTime(lg, at) PROVE OnTime(lg2, at)
      BY <2>1, <2>4, FateOnTime
    <2>5. ASSUME NEW g, NEW latest, InTurn(lg, g, latest) PROVE InTurn(lg2, g, latest)
      BY <2>1, <2>5, FateInTurn
    <2>6. ASSUME NEW g, NEW h PROVE MatchedIn(lg2, g, h) = MatchedIn(lg, g, h)
      BY <2>1, FateMatched
    <2> QED BY <2>0, <2>2, <2>3, <2>4, <2>5, <2>6
  <1>5. open[f] => Enter(f, n)
    BY <1>1 DEF Arrive
  <1>6. ~open[f] => UNCHANGED <<queue, waiters>>
    BY <1>1 DEF Arrive
  <1>7. /\ queue' \in [Face -> Seq(Nat)] /\ waiters' \in [Face -> Seq(Nat)]
        /\ \A g \in Face : Len(queue'[g]) <= Capacity
    BY <1>2, <1>3, <1>5, <1>6, FrameEnters DEF Types
  <1>8. Types'
    <2>1. Ids' = Ids
      BY <1>4 DEF Ids
    <2> QED BY <1>2, <1>4, <1>7, <2>1 DEF Types, chan
  <1>9. Timely'
    BY <1>2, <1>4 DEF Timely
  <1>10. Ends'
    <2>1. ASSUME NEW g \in Face
          PROVE  EndSound(Profile[g].reliable, open'[g], Seen(g)', ArrivedIn(log', g), CarriedIn(log', g))
      <3>1. EndSound(Profile[g].reliable, open[g], Seen(g), ArrivedIn(log, g), CarriedIn(log, g))
            /\ open'[g] = open[g]
        BY <1>2 DEF Ends
      <3>3. CASE f = g /\ open[f]
        <4>1. Grows(Seen(g), n, Seen(g)')
          BY <1>2, <1>3, <1>5, <3>3, FrameEnters
        <4>2. n \notin ArrivedIn(log, g)
          BY <1>2 DEF ArrivedIn
        <4>3. n \in CarriedIn(log, g)
          BY <1>1, <1>2, <3>3 DEF CarriedIn
        <4>4. ASSUME Profile[g].reliable
              PROVE  Ahead(Seen(g), n) /\ \A m \in CarriedIn(log, g) \ {n} : n < m
          <5>1. Ahead(Seen(g), n)
            BY <3>1, <4>3, <4>4 DEF EndSound
          <5>2. \A m \in InTransit \ {n} : Sooner(n, m)
            BY DEF Arrive
          <5> QED BY <1>1, <1>2, <3>3, <4>4, <5>1, <5>2, FirstInTurn
        <4>5. IsFiniteSet(ArrivedIn(log, g)) /\ CarriedIn(log, g) \ {n} \subseteq Nat
          BY <1>2, IdsFinite
        <4>6. EndSound(Profile[g].reliable, open[g], Seen(g)', ArrivedIn(log, g) \cup {n},
                       CarriedIn(log, g) \ {n})
          BY <1>3, <3>1, <4>1, <4>2, <4>4, <4>5, SeenTyped, EndArrives
        <4>7. ArrivedIn(log', g) = ArrivedIn(log, g) \cup {n} /\ CarriedIn(log', g) = CarriedIn(log, g) \ {n}
          BY <1>1, <1>4, <3>3
        <4> QED BY <3>1, <4>6, <4>7
      <3>4. CASE ~(f = g /\ open[f])
        <4>1. Seen(g)' = Seen(g)
          <5>1. CASE open[f]
            BY <1>2, <1>3, <1>5, <3>4, <5>1, FrameEnters
          <5>2. CASE ~open[f]
            BY <1>2, <1>6, <5>2 DEF Seen
          <5> QED BY <5>1, <5>2
        <4>2. ArrivedIn(log', g) = ArrivedIn(log, g) /\ CarriedIn(log', g) = CarriedIn(log, g) \ {n}
          BY <1>1, <1>4, <3>4
        <4> QED BY <3>1, <4>1, <4>2, EndSettles
      <3> QED BY <3>3, <3>4
    <2> QED BY <2>1 DEF Ends
  <1>11. HoldCounts'
    <2>1. ASSUME NEW g \in Face, link'[g].hold # NoHold PROVE Counted(log', g, link'[g].hold)
      <3>1. link'[g].hold = link[g].hold /\ link[g].hold \in HoldState
            /\ Counted(log, g, link[g].hold)
        BY <1>2, <2>1 DEF HoldCounts, Types, LinkKnobs
      <3>2. Len(log) \in Nat /\ Len(log') \in Nat /\ Len(log) <= Len(log')
        BY <1>2, <1>4, LenProperties
      <3>3. \A m \in MatchedIn(log, g, link[g].hold) : log'[m].held = log[m].held
        BY <1>4 DEF MatchedIn
      <3> QED BY <1>4, <3>1, <3>2, <3>3, CountedSame
    <2> QED BY <2>1 DEF HoldCounts
  <1> QED BY <1>8, <1>9, <1>10, <1>11
LEMMA RecvStep ==
  ASSUME Types, Timely, Ends, HoldCounts, NEW f \in Face, Recv(f)
  PROVE  Types' /\ Timely' /\ Ends' /\ HoldCounts'
  <1>1. PICK r, q, w : r = received[f] /\ q = queue[f] /\ w = waiters[f]
    OBVIOUS
  <1>2. /\ r \in Seq(Nat) /\ q \in Seq(Nat) /\ w \in Seq(Nat) /\ q # <<>> /\ Len(q) <= Capacity
        /\ UNCHANGED <<now, chan, link, nextTx, last, log, open, faults>>
        /\ received' = [received EXCEPT ![f] = Append(r, Head(q))]
    BY <1>1 DEF Recv, Types
  <1>3. /\ Head(q) \in Nat /\ Tail(q) \in Seq(Nat) /\ Len(Tail(q)) = Len(q) - 1 /\ Len(q) \in Nat
        /\ Append(r, Head(q)) \in Seq(Nat)
    BY <1>2, HeadTailProperties, AppendProperties, LenProperties
  <1>4. received' \in [Face -> Seq(Nat)] /\ received'[f] = Append(r, Head(q))
    BY <1>2, <1>3 DEF Types
  <1>5. /\ Lined(Append(r, Head(q)), Tail(q), w) = Lined(r, q, w)
        /\ w # <<>> => Lined(Append(r, Head(q)), Append(Tail(q), Head(w)), Tail(w)) = Lined(r, q, w)
    BY <1>2, SeenRead
  <1>6. CASE w = <<>>
    <2>1. queue' = [queue EXCEPT ![f] = Tail(q)] /\ UNCHANGED <<waiters, blocked>>
      BY <1>1, <1>6 DEF Recv
    <2>2. queue'[f] = Tail(q) /\ waiters'[f] = w
      BY <1>1, <2>1 DEF Types
    <2>3. Seen(f)' = Seen(f)
      BY <1>1, <1>4, <1>5, <2>2 DEF Seen
    <2>4. \A g \in Face \ {f} : Seen(g)' = Seen(g)
      BY <1>2, <2>1 DEF Seen, Types
    <2>5. queue' \in [Face -> Seq(Nat)] /\ \A g \in Face : Len(queue'[g]) <= Capacity
      <3>1. Len(Tail(q)) <= Capacity
        BY <1>2, <1>3, BoundsAssumption
      <3> QED BY <1>3, <2>1, <3>1 DEF Types
    <2>6. Types'
      BY <1>2, <1>4, <2>1, <2>5 DEF Types, chan, Ids
    <2> QED BY <1>2, <2>3, <2>4, <2>6 DEF Timely, Ends, HoldCounts
  <1>7. CASE w # <<>>
    <2>1. /\ queue' = [queue EXCEPT ![f] = Append(Tail(q), Head(w))]
          /\ waiters' = [waiters EXCEPT ![f] = Tail(w)]
          /\ blocked' = [blocked EXCEPT ![f] = IF @ = Head(w) THEN 0 ELSE @]
      BY <1>1, <1>7 DEF Recv
    <2>2. Head(w) \in Nat /\ Tail(w) \in Seq(Nat)
      BY <1>2, <1>7, HeadTailProperties
    <2>3. Append(Tail(q), Head(w)) \in Seq(Nat) /\ Len(Append(Tail(q), Head(w))) = Len(q)
      BY <1>3, <2>2, AppendProperties
    <2>4. queue'[f] = Append(Tail(q), Head(w)) /\ waiters'[f] = Tail(w)
      BY <1>1, <2>1 DEF Types
    <2>5. Seen(f)' = Seen(f)
      BY <1>1, <1>4, <1>5, <1>7, <2>4 DEF Seen
    <2>6. \A g \in Face \ {f} : Seen(g)' = Seen(g)
      BY <1>2, <2>1 DEF Seen, Types
    <2>7. queue' \in [Face -> Seq(Nat)] /\ \A g \in Face : Len(queue'[g]) <= Capacity
      BY <1>2, <2>1, <2>3 DEF Types
    <2>8. waiters' \in [Face -> Seq(Nat)]
      BY <2>1, <2>2 DEF Types
    <2>9. blocked' \in [Face -> {0} \cup Ids]
      BY <2>1 DEF Types
    <2>10. Types'
      BY <1>2, <1>4, <2>7, <2>8, <2>9 DEF Types, chan, Ids
    <2> QED BY <1>2, <2>5, <2>6, <2>10 DEF Timely, Ends, HoldCounts
  <1> QED BY <1>6, <1>7

LEMMA CloseStep ==
  ASSUME Types, Timely, Ends, HoldCounts, NEW f \in Face, Close(f)
  PROVE  Types' /\ Timely' /\ Ends' /\ HoldCounts'
  <1>1. /\ open' = [open EXCEPT ![f] = FALSE] /\ queue' = [queue EXCEPT ![f] = <<>>]
        /\ waiters' = [waiters EXCEPT ![f] = <<>>] /\ blocked' = [blocked EXCEPT ![f] = 0]
        /\ faults' = faults + 1 /\ UNCHANGED <<now, chan, link, nextTx, last, log, received>>
    BY DEF Close
  <1>2. Types'
    <2>1. <<>> \in Seq(Nat) /\ Len(<<>>) <= Capacity
      BY BoundsAssumption
    <2>2. queue' \in [Face -> Seq(Nat)] /\ waiters' \in [Face -> Seq(Nat)]
          /\ \A g \in Face : Len(queue'[g]) <= Capacity
      BY <1>1, <2>1 DEF Types
    <2> QED BY <1>1, <2>2 DEF Types, chan, Ids
  <1>3. Ends'
    <2>1. ASSUME NEW g \in Face
          PROVE  EndSound(Profile[g].reliable, open'[g], Seen(g)', ArrivedIn(log', g), CarriedIn(log', g))
      <3>1. EndSound(Profile[g].reliable, open[g], Seen(g), ArrivedIn(log, g), CarriedIn(log, g))
        BY DEF Ends
      <3>2. CASE g # f
        BY <1>1, <3>1, <3>2 DEF Seen, Types
      <3>3. CASE g = f
        <4>1. PICK r, q, w : r = received[f] /\ q = queue[f] /\ w = waiters[f]
          OBVIOUS
        <4>2. r \in Seq(Nat) /\ q \in Seq(Nat) /\ w \in Seq(Nat)
          BY <4>1 DEF Types
        <4>3. Seen(g) = Cat(r, Cat(q, w)) /\ Cat(q, w) \in Seq(Nat)
          <5>1. Cat(Cat(r, q), w) = Cat(r, Cat(q, w)) /\ Cat(q, w) \in Seq(Nat)
            BY <4>2, CatAssociative, CatTyped
          <5>2. Seen(g) = Cat(Cat(r, q), w)
            BY <3>3, <4>1 DEF Cat, Lined, Seen
          <5> QED BY <5>1, <5>2
        <4>4. EndSound(Profile[g].reliable, FALSE, r, ArrivedIn(log, g), CarriedIn(log, g))
          BY <3>1, <4>2, <4>3, EndCloses
        <4>5. Lined(r, <<>>, <<>>) = r
          BY <4>2, ConcatEmptySeq DEF Lined
        <4>6. received'[f] = r /\ queue'[f] = <<>> /\ waiters'[f] = <<>> /\ open'[f] = FALSE
          BY <1>1, <4>1 DEF Types
        <4>7. Seen(g)' = r
          BY <3>3, <4>5, <4>6 DEF Seen
        <4> QED BY <1>1, <3>3, <4>4, <4>6, <4>7
      <3> QED BY <3>2, <3>3
    <2> QED BY <2>1 DEF Ends
  <1> QED BY <1>1, <1>2, <1>3 DEF Timely, HoldCounts

-----------------------------------------------------------------------------
(* The hold rule's steps.                                                  *)

LEMMA HoldTyped ==
  ASSUME Types, NEW f \in Face, NEW k \in Kinds, Matches(link[f].hold, k)
  PROVE  link[f].hold \in HoldState
  BY TrafficAssumption DEF Types, LinkKnobs, Matches, NoHold

\* A frame sent on a link that is up is counted by the rule in force, and held by it or not.
LEMMA CountedStep ==
  ASSUME Types, HoldCounts, NEW f \in Face, NEW k \in Kinds, NEW e \in LogEntry,
         e.face = f, e.kind = k, e.held <=> Held(f, k), e.fate # "down", Grows(log, e, log'),
         link' = CountMatch(f, k)
  PROVE  link' \in [Face -> LinkKnobs] /\ HoldCounts'
  <1>0. log \in Seq(LogEntry) /\ link \in [Face -> LinkKnobs]
    BY DEF Types
  <1>1. ASSUME NEW g \in Face, link[g].hold # NoHold, ~(g = f /\ Matches(link[g].hold, k))
        PROVE  Counted(log', g, link[g].hold)
    <2>1. link[g].hold \in HoldState /\ Counted(log, g, link[g].hold)
      BY <1>0, <1>1 DEF HoldCounts, LinkKnobs
    <2>2. ~(e.face = g /\ e.fate # "down" /\ Matches(link[g].hold, e.kind))
      BY <1>1
    <2> QED BY <1>0, <2>1, <2>2, CountedAppendOther
  <1>2. CASE ~Matches(link[f].hold, k)
    <2>1. link' = link
      BY <1>2 DEF CountMatch
    <2> QED BY <1>0, <1>1, <1>2, <2>1 DEF HoldCounts
  <1>3. CASE Matches(link[f].hold, k)
    <2>1. PICK h : h = link[f].hold
      OBVIOUS
    <2>2. h \in HoldState /\ h # NoHold /\ Counted(log, f, h)
      <3>1. h \in HoldState
        BY <1>3, <2>1, HoldTyped
      <3>2. h # NoHold
        BY <1>3, <2>1, TrafficAssumption DEF Matches, NoHold
      <3> QED BY <2>1, <3>1, <3>2 DEF HoldCounts
    <2>3. PICK h2 : h2 = [h EXCEPT !.matched = @ + 1, !.held = IF Held(f, k) THEN @ + 1 ELSE @]
      OBVIOUS
    <2>4. /\ h2 \in HoldState /\ h2.matcher = h.matcher /\ h2.skip = h.skip /\ h2.count = h.count
          /\ h2.since = h.since /\ h2.matched = h.matched + 1
          /\ h2.held = IF e.held THEN h.held + 1 ELSE h.held
      <3>1. h2 = [matcher |-> h.matcher, skip |-> h.skip, count |-> h.count, delay |-> h.delay,
                  matched |-> h.matched + 1, held |-> IF e.held THEN h.held + 1 ELSE h.held,
                  since |-> h.since]
        BY <2>2, <2>3 DEF HoldState
      <3> QED BY <2>2, <3>1 DEF HoldState
    <2>5. link' = [link EXCEPT ![f] = [link[f] EXCEPT !.hold = h2]]
      BY <1>3, <2>1, <2>3 DEF CountMatch
    <2>6. [link[f] EXCEPT !.hold = h2] \in LinkKnobs
      BY <1>0, <2>4 DEF LinkKnobs
    <2>7. link' \in [Face -> LinkKnobs] /\ \A g \in Face \ {f} : link'[g] = link[g]
      BY <1>0, <2>5, <2>6
    <2>8. link'[f].hold = h2
      BY <1>0, <2>5 DEF LinkKnobs
    <2>9. Counted(log', f, h2)
      <3>1. e.held <=> h.matched >= h.skip /\ h.held < h.count
        BY <1>3, <2>1 DEF Held
      <3>2. Matches(h, e.kind)
        BY <1>3, <2>1
      <3> QED BY <1>0, <2>2, <2>4, <3>1, <3>2, CountedAppendMatch
    <2>10. ASSUME NEW g \in Face, link'[g].hold # NoHold PROVE Counted(log', g, link'[g].hold)
      <3>1. CASE g = f
        BY <2>8, <2>9, <3>1
      <3>2. CASE g # f
        BY <1>1, <2>7, <2>10, <3>2
      <3> QED BY <3>1, <3>2
    <2> QED BY <2>7, <2>10 DEF HoldCounts
  <1> QED BY <1>2, <1>3

LEMMA DownStep ==
  ASSUME Types, HoldCounts, NEW e \in LogEntry, e.fate = "down", Grows(log, e, log'), link' = link
  PROVE  HoldCounts'
  <1>1. ASSUME NEW g \in Face, link[g].hold # NoHold PROVE Counted(log', g, link[g].hold)
    <2>1. log \in Seq(LogEntry) /\ link[g].hold \in HoldState /\ Counted(log, g, link[g].hold)
      BY <1>1 DEF HoldCounts, Types, LinkKnobs
    <2> QED BY <2>1, CountedAppendOther
  <1> QED BY <1>1 DEF HoldCounts

LEMMA KnobStep ==
  ASSUME Types, Timely, Ends, HoldCounts, NEW f \in Face, NEW st \in LinkKnobs, Knob(f, st),
         st.hold = link[f].hold \/ st.hold = NoHold
            \/ (st.hold.since = Len(log) /\ st.hold.matched = 0 /\ st.hold.held = 0)
  PROVE  Types' /\ Timely' /\ Ends' /\ HoldCounts'
  <1>1. /\ link' = [link EXCEPT ![f] = st] /\ faults' = faults + 1
        /\ UNCHANGED <<now, chan, nextTx, last, log, pipe>>
    BY DEF Knob
  <1>2. link' \in [Face -> LinkKnobs] /\ link'[f] = st /\ \A g \in Face \ {f} : link'[g] = link[g]
    BY <1>1 DEF Types
  <1>3. Types'
    BY <1>1, <1>2 DEF Types, chan, pipe, Ids
  <1>4. ASSUME NEW g \in Face, link'[g].hold # NoHold PROVE Counted(log', g, link'[g].hold)
    <2>1. CASE link'[g].hold = link[g].hold
      BY <1>1, <1>4, <2>1 DEF HoldCounts
    <2>2. CASE link'[g].hold # link[g].hold
      <3>1. g = f /\ st.hold \in HoldState /\ st.hold.since = Len(log) /\ st.hold.matched = 0
            /\ st.hold.held = 0 /\ log \in Seq(LogEntry)
        BY <1>2, <1>4, <2>2 DEF LinkKnobs, Types
      <3> QED BY <1>1, <1>2, <3>1, CountedNew
    <2> QED BY <2>1, <2>2
  <1> QED BY <1>1, <1>3, <1>4 DEF Timely, Ends, HoldCounts, Seen, pipe
-----------------------------------------------------------------------------
(* The sends.                                                              *)

LEMMA StartTyped ==
  ASSUME Types, NEW f \in Face, NEW z \in Sizes
  PROVE  /\ TxStart(f, z) \in Int
         /\ OnAir(f, z) => busy' \in Nat
         /\ Shaped(f) => TxStart(f, z) + TxDuration(f, z) \in Int
  <1>1. Channel!Airtime(WireCost(f, z)) \in Nat /\ WireCost(f, z).bytes \in Nat
    BY AirtimeNat
  <1>2. now \in Int /\ now \in Nat /\ busy \in Nat /\ nextTx[f] \in Int
    BY BoundsAssumption DEF Types
  <1>3. Channel!Start(now) \in Nat
    BY <1>2 DEF Channel!Start
  <1>4. TxStart(f, z) \in Int
    BY <1>1, <1>2, <1>3 DEF TxStart, MaxOf
  <1>5. OnAir(f, z) => busy' \in Nat
    BY <1>1, <1>2, <1>3 DEF OnAir, Channel!Claim, chan
  <1>6. ASSUME Shaped(f) PROVE TxStart(f, z) + TxDuration(f, z) \in Int
    <2>1. Profile[f].bandwidth \in Nat \ {0}
      BY <1>6, ProfileAssumption DEF Shaped
    <2>2. WireCost(f, z).bytes * 8 \in Nat
      BY <1>1
    <2>3. (WireCost(f, z).bytes * 8) * NsPerSec \in Nat
      BY <2>2, BoundsAssumption, ProductNat
    <2>4. TxDuration(f, z) \in Nat
      BY <2>1, <2>3, QuotientNat DEF TxDuration
    <2> QED BY <1>4, <2>4
  <1> QED BY <1>4, <1>5, <1>6

\* A stream's frame is due after the one before it.
LEMMA DueTyped ==
  ASSUME Types, NEW f \in Face, NEW k \in Kinds, NEW z \in Sizes, NEW jit \in Jitters(f),
         NEW due, due = DeliverAt(f, k, z, jit)
  PROVE  due \in Int /\ (Profile[f].reliable => due > last[f])
  <1>1. TxStart(f, z) \in Int /\ last[f] \in Int
    BY StartTyped DEF Types
  <1>2. Profile[f].delay \in Nat /\ jit \in Int
    BY ProfileAssumption DEF Jitters
  <1>3. link[f].extra \in Nat
    <2>1. link[f] \in LinkKnobs
      BY DEF Types
    <2>2. link[f].extra \in ExtraDelays \cup {0}
      BY <2>1 DEF LinkKnobs
    <2>3. ExtraDelays \subseteq Nat
      BY TrafficAssumption
    <2>4. \A x \in ExtraDelays \cup {0} : x \in Nat
      BY <2>3
    <2> QED BY <2>2, <2>4, Zenon
  <1>4. HoldDelay(f, k) \in Nat
    <2>1. CASE Held(f, k)
      <3>1. link[f].hold \in HoldState
        BY <2>1, HoldTyped DEF Held
      <3> QED BY <2>1, <3>1 DEF HoldDelay, HoldState
    <2>2. CASE ~Held(f, k)
      BY <2>2 DEF HoldDelay
    <2> QED BY <2>1, <2>2
  <1>5. PICK at : at = TxStart(f, z) + Profile[f].delay + jit + link[f].extra + HoldDelay(f, k)
    OBVIOUS
  <1>6. at \in Int
    BY <1>1, <1>2, <1>3, <1>4, <1>5
  <1>7. due = IF Profile[f].reliable /\ at <= last[f] THEN last[f] + 1 ELSE at
    BY <1>5 DEF DeliverAt
  <1> QED BY <1>1, <1>6, <1>7

LEMMA FrameTyped ==
  ASSUME Types, NEW f \in Face, NEW k \in Kinds, NEW z \in Sizes, NEW held \in BOOLEAN,
         NEW due \in Int, NEW fate \in Fates, NEW e, e = Frame(f, k, z, held, due, fate)
  PROVE  e \in LogEntry /\ e.face = f /\ e.kind = k /\ e.held = held /\ e.due = due /\ e.fate = fate
  BY DEF Types, Frame, LogEntry

\* The types after a send, from what it does to each variable.
LEMMA SentTypes ==
  ASSUME Types, NEW e \in LogEntry, Grows(log, e, log'), UNCHANGED <<now, received, open, faults>>,
         busy' \in Nat, link' \in [Face -> LinkKnobs], nextTx' \in [Face -> Int],
         last' \in [Face -> Int], queue' \in [Face -> Seq(Nat)], waiters' \in [Face -> Seq(Nat)],
         \A f \in Face : Len(queue'[f]) <= Capacity,
         \/ blocked' = blocked
         \/ \E f \in Face, n \in {0, Len(log) + 1} : blocked' = [blocked EXCEPT ![f] = n]
  PROVE  Types'
  <1>1. log' \in Seq(LogEntry) /\ Ids' = Ids \cup {Len(log) + 1}
    BY LogAppends DEF Types, Ids
  <1>2. blocked' \in [Face -> {0} \cup Ids']
    BY <1>1 DEF Types
  <1> QED BY <1>1, <1>2 DEF Types

LEMMA SendSettles ==
  ASSUME Types, Timely, Ends, HoldCounts, NEW f \in Face, NEW k \in Kinds, NEW z \in Sizes,
         SendDown(f, k, z) \/ SendRefused(f, k, z) \/ SendLost(f, k, z)
  PROVE  Types' /\ Timely' /\ Ends' /\ HoldCounts'
  <1>1. /\ UNCHANGED <<now, nextTx, last, pipe, faults>> /\ busy' \in Nat
    BY StartTyped DEF SendDown, SendRefused, SendLost, Channel!Refuse, chan, Types
  <1>2. \E fate \in {"down", "tail", "lost"}, held \in BOOLEAN :
           /\ log' = Append(log, Frame(f, k, z, held, now, fate))
           /\ fate = "down" => link' = link
           /\ fate # "down" => link' = CountMatch(f, k) /\ (held <=> Held(f, k))
    <2>1. Held(f, k) \in BOOLEAN
      BY DEF Held, Matches
    <2>2. CASE SendDown(f, k, z)
      BY <2>2 DEF SendDown
    <2>3. CASE SendRefused(f, k, z)
      BY <2>1, <2>3 DEF SendRefused
    <2>4. CASE SendLost(f, k, z)
      BY <2>1, <2>4 DEF SendLost
    <2> QED BY <2>2, <2>3, <2>4
  <1>3. PICK fate \in {"down", "tail", "lost"}, held \in BOOLEAN :
           /\ log' = Append(log, Frame(f, k, z, held, now, fate))
           /\ fate = "down" => link' = link
           /\ fate # "down" => link' = CountMatch(f, k) /\ (held <=> Held(f, k))
    BY <1>2
  <1>4. PICK e : e = Frame(f, k, z, held, now, fate)
    OBVIOUS
  <1>5. Grows(log, e, log')
    BY <1>3, <1>4 DEF Grows
  <1>6. e \in LogEntry /\ e.face = f /\ e.kind = k /\ e.held = held /\ e.fate = fate
    BY <1>4, FrameTyped DEF Types, Fates
  <1>7. link' \in [Face -> LinkKnobs] /\ HoldCounts'
    <2>1. CASE fate = "down"
      BY <1>3, <1>5, <1>6, <2>1, DownStep DEF Types
    <2>2. CASE fate # "down"
      BY <1>3, <1>5, <1>6, <2>2, CountedStep
    <2> QED BY <2>1, <2>2
  <1>8. Types'
    BY <1>1, <1>5, <1>6, <1>7, SentTypes DEF Types, pipe
  <1>9. e.fate \notin {"arrived", "transit"}
    BY <1>6
  <1>10. Timely'
    <2>1. now' = now /\ last' \in [Face -> Int] /\ \A g \in Face : last'[g] >= last[g]
      BY <1>1 DEF Types
    <2> QED BY <1>5, <1>6, <1>9, <2>1, TimelyGrows
  <1>11. Ends'
    BY <1>1, <1>5, <1>6, <1>9, SettleStep DEF pipe
  <1> QED BY <1>7, <1>8, <1>10, <1>11

LEMMA AcceptTyped ==
  ASSUME Types, NEW f \in Face, NEW k \in Kinds, NEW z \in Sizes, Accept(f, k, z),
         NEW due \in Int, Profile[f].reliable => due > last[f], Remember(f, due)
  PROVE  /\ UNCHANGED <<now, received, open, faults>> /\ busy' \in Nat
         /\ nextTx' \in [Face -> Int] /\ last' \in [Face -> Int]
         /\ \A g \in Face : last'[g] >= last[g]
         /\ Profile[f].reliable => last'[f] >= due
         /\ link' = CountMatch(f, k)
  <1>1. UNCHANGED <<now, received, open, faults>> /\ OnAir(f, z) /\ link' = CountMatch(f, k)
        /\ nextTx' = IF Shaped(f)
                     THEN [nextTx EXCEPT ![f] = TxStart(f, z) + TxDuration(f, z)] ELSE nextTx
    BY DEF Accept
  <1>2. busy' \in Nat /\ nextTx' \in [Face -> Int]
    BY <1>1, StartTyped DEF Types
  <1>3. last' = IF Profile[f].reliable THEN [last EXCEPT ![f] = due] ELSE last
    BY DEF Remember
  <1>4. last \in [Face -> Int]
    BY DEF Types
  <1>5. last' \in [Face -> Int] /\ (\A g \in Face : last'[g] >= last[g])
        /\ (Profile[f].reliable => last'[f] >= due)
    BY <1>3, <1>4
  <1> QED BY <1>1, <1>2, <1>5

LEMMA SendDelayedStep ==
  ASSUME Types, Timely, Ends, HoldCounts, NEW f \in Face, NEW k \in Kinds, NEW z \in Sizes,
         SendDelayed(f, k, z)
  PROVE  Types' /\ Timely' /\ Ends' /\ HoldCounts'
  <1>1. PICK jit \in Jitters(f) :
           /\ Accept(f, k, z) /\ DeliverAt(f, k, z, jit) > now
           /\ Remember(f, DeliverAt(f, k, z, jit))
           /\ log' = Append(log, Frame(f, k, z, Held(f, k), DeliverAt(f, k, z, jit), "transit"))
           /\ UNCHANGED <<waiters, blocked, queue>>
    BY DEF SendDelayed
  <1>2. PICK due : due = DeliverAt(f, k, z, jit)
    OBVIOUS
  <1>3. due \in Int /\ (Profile[f].reliable => due > last[f])
    BY <1>2, DueTyped
  <1>4. PICK held \in BOOLEAN : held = Held(f, k)
    BY DEF Held, Matches
  <1>5. PICK e : e = Frame(f, k, z, held, due, "transit")
    OBVIOUS
  <1>6. Grows(log, e, log')
    BY <1>1, <1>2, <1>4, <1>5 DEF Grows
  <1>7. e \in LogEntry /\ e.face = f /\ e.kind = k /\ e.held = held /\ e.due = due /\ e.fate = "transit"
    <2>1. "transit" \in Fates
      BY DEF Fates
    <2> QED BY <1>3, <1>5, <2>1, FrameTyped
  <1>8. /\ UNCHANGED <<now, received, open, faults>> /\ busy' \in Nat
        /\ nextTx' \in [Face -> Int] /\ last' \in [Face -> Int]
        /\ \A g \in Face : last'[g] >= last[g]
        /\ Profile[f].reliable => last'[f] >= due
        /\ link' = CountMatch(f, k)
    BY <1>1, <1>2, <1>3, AcceptTyped
  <1>9. link' \in [Face -> LinkKnobs] /\ HoldCounts'
    BY <1>4, <1>6, <1>7, <1>8, CountedStep
  <1>10. Types'
    BY <1>1, <1>6, <1>7, <1>8, <1>9, SentTypes DEF Types
  <1>11. Timely'
    <2>1. now \in Int
      BY DEF Types
    <2>2. e.due >= now
      BY <1>1, <1>2, <1>3, <1>7, <2>1
    <2> QED BY <1>3, <1>6, <1>7, <1>8, <2>2, TimelyGrows
  <1>12. Ends'
    BY <1>1, <1>6, <1>7, <1>8, DepartStep
  <1> QED BY <1>9, <1>10, <1>11, <1>12

LEMMA SendInlineStep ==
  ASSUME Types, Timely, Ends, HoldCounts, NEW f \in Face, NEW k \in Kinds, NEW z \in Sizes,
         SendInline(f, k, z)
  PROVE  Types' /\ Timely' /\ Ends' /\ HoldCounts'
  <1>1. PICK jit \in Jitters(f) :
           /\ Accept(f, k, z) /\ DeliverAt(f, k, z, jit) <= now
           /\ Remember(f, DeliverAt(f, k, z, jit))
           /\ log' = Append(log, Frame(f, k, z, Held(f, k), DeliverAt(f, k, z, jit),
                                       IF open[f] THEN "arrived" ELSE "closed"))
           /\ IF open[f]
              THEN Enter(f, Len(log) + 1)
                   /\ blocked' = [blocked EXCEPT ![f] = IF Room(f) THEN 0 ELSE Len(log) + 1]
              ELSE UNCHANGED <<queue, waiters, blocked>>
    BY DEF SendInline
  <1>2. PICK due, fate : due = DeliverAt(f, k, z, jit) /\ fate = IF open[f] THEN "arrived" ELSE "closed"
    OBVIOUS
  <1>3. due \in Int /\ (Profile[f].reliable => due > last[f])
    BY <1>2, DueTyped
  <1>4. PICK held \in BOOLEAN : held = Held(f, k)
    BY DEF Held, Matches
  <1>5. PICK e : e = Frame(f, k, z, held, due, fate)
    OBVIOUS
  <1>6. Grows(log, e, log')
    BY <1>1, <1>2, <1>4, <1>5 DEF Grows
  <1>7. e \in LogEntry /\ e.face = f /\ e.kind = k /\ e.held = held /\ e.due = due /\ e.fate = fate
    <2>1. fate \in Fates
      BY <1>2 DEF Fates
    <2> QED BY <1>3, <1>5, <2>1, FrameTyped
  <1>8. /\ UNCHANGED <<now, received, open, faults>> /\ busy' \in Nat
        /\ nextTx' \in [Face -> Int] /\ last' \in [Face -> Int]
        /\ \A g \in Face : last'[g] >= last[g]
        /\ link' = CountMatch(f, k)
    BY <1>1, <1>2, <1>3, AcceptTyped
  <1>9. link' \in [Face -> LinkKnobs] /\ HoldCounts'
    <2>1. e.fate # "down"
      BY <1>2, <1>7
    <2> QED BY <1>4, <1>6, <1>7, <1>8, <2>1, CountedStep
  <1>10. Timely'
    <2>1. e.fate # "transit"
      BY <1>2, <1>7
    <2> QED BY <1>6, <1>7, <1>8, <2>1, TimelyGrows
  <1>11. CASE open[f]
    <2>1. Enter(f, Len(log) + 1) /\ fate = "arrived"
          /\ blocked' = [blocked EXCEPT ![f] = IF Room(f) THEN 0 ELSE Len(log) + 1]
      BY <1>1, <1>2, <1>11
    <2>2. Len(log) + 1 \in Nat
      BY LenProperties DEF Types
    <2>3. /\ queue' \in [Face -> Seq(Nat)] /\ waiters' \in [Face -> Seq(Nat)]
          /\ \A g \in Face : Len(queue'[g]) <= Capacity
      BY <1>8, <2>1, <2>2, FrameEnters
    <2>4. Types'
      BY <1>6, <1>7, <1>8, <1>9, <2>1, <2>3, SentTypes
    <2>5. Ends'
      BY <1>1, <1>2, <1>3, <1>6, <1>7, <1>8, <2>1, InlineStep
    <2> QED BY <1>9, <1>10, <2>4, <2>5
  <1>12. CASE ~open[f]
    <2>1. UNCHANGED <<queue, waiters, blocked>> /\ e.fate \notin {"arrived", "transit"}
      BY <1>1, <1>2, <1>7, <1>12
    <2>2. Types'
      BY <1>6, <1>7, <1>8, <1>9, <2>1, SentTypes DEF Types
    <2>3. Ends'
      BY <1>6, <1>7, <1>8, <2>1, SettleStep
    <2> QED BY <1>9, <1>10, <2>2, <2>3
  <1> QED BY <1>11, <1>12
-----------------------------------------------------------------------------
(* The invariant holds.                                                    *)

LEMMA FaceInit == Init => FaceInv
  <1> SUFFICES ASSUME Init PROVE FaceInv
    OBVIOUS
  <1>1. <<>> \in Seq(Nat) /\ Len(<<>>) = 0 /\ <<>> \in Seq(LogEntry)
    OBVIOUS
  <1>2. AtRest \in LinkKnobs
    BY DEF AtRest, LinkKnobs, NoHold
  <1>3. 0 \in 0..MaxTime /\ 0 <= Capacity
    BY BoundsAssumption
  <1>4. Types
    BY <1>1, <1>2, <1>3 DEF Init, Types
  <1>5. Timely
    BY <1>1 DEF Init, Timely, OnTime, InTurn, CarriedIn
  <1>6. ASSUME NEW f \in Face
        PROVE  EndSound(Profile[f].reliable, open[f], Seen(f), ArrivedIn(log, f), CarriedIn(log, f))
    <2>1. Lined(<<>>, <<>>, <<>>) = <<>>
      BY <1>1, ConcatEmptySeq DEF Lined
    <2>2. Seen(f) = <<>>
      BY <2>1 DEF Init, Seen
    <2>3. ArrivedIn(log, f) = {} /\ CarriedIn(log, f) = {}
      BY <1>1 DEF Init, ArrivedIn, CarriedIn
    <2>4. EachOnce(<<>>, {}) /\ SentOnly(<<>>, {}) /\ Ascending(<<>>)
      BY <1>1, FS_EmptySet DEF EachOnce, SentOnly, Ascending
    <2> QED BY <2>2, <2>3, <2>4 DEF EndSound
  <1>7. HoldCounts
    BY DEF Init, HoldCounts, AtRest
  <1> QED BY <1>4, <1>5, <1>6, <1>7 DEF FaceInv, Ends

LEMMA FaultsStep ==
  ASSUME Types, Timely, Ends, HoldCounts, NEW f \in Face,
         \/ \E b \in BOOLEAN : SetDown(f, b)
         \/ \E r \in LossRates \cup {"profile"} : SetLoss(f, r)
         \/ \E e \in ExtraDelays : SetExtraDelay(f, e)
         \/ \E r \in HoldRules : SetHold(f, r)
         \/ Reset(f) \/ Close(f)
  PROVE  Types' /\ Timely' /\ Ends' /\ HoldCounts'
  <1>1. PICK k : k = link[f]
    OBVIOUS
  <1>2. k \in LinkKnobs
    BY <1>1 DEF Types
  <1>3. ASSUME NEW b \in BOOLEAN, SetDown(f, b) PROVE Types' /\ Timely' /\ Ends' /\ HoldCounts'
    <2>1. [k EXCEPT !.down = b] \in LinkKnobs /\ [k EXCEPT !.down = b].hold = k.hold
      BY <1>2 DEF LinkKnobs
    <2> QED BY <1>1, <1>3, <2>1, KnobStep DEF SetDown
  <1>4. ASSUME NEW r \in LossRates \cup {"profile"}, SetLoss(f, r)
        PROVE  Types' /\ Timely' /\ Ends' /\ HoldCounts'
    <2>1. [k EXCEPT !.loss = r] \in LinkKnobs /\ [k EXCEPT !.loss = r].hold = k.hold
      BY <1>2, LossAssumption DEF LinkKnobs
    <2> QED BY <1>1, <1>4, <2>1, KnobStep DEF SetLoss
  <1>5. ASSUME NEW e \in ExtraDelays, SetExtraDelay(f, e)
        PROVE  Types' /\ Timely' /\ Ends' /\ HoldCounts'
    <2>1. [k EXCEPT !.extra = e] \in LinkKnobs /\ [k EXCEPT !.extra = e].hold = k.hold
      BY <1>2 DEF LinkKnobs
    <2> QED BY <1>1, <1>5, <2>1, KnobStep DEF SetExtraDelay
  <1>6. ASSUME NEW r \in HoldRules, SetHold(f, r) PROVE Types' /\ Timely' /\ Ends' /\ HoldCounts'
    <2>1. PICK h : h = [matcher |-> r.matcher, skip |-> r.skip, count |-> r.count, delay |-> r.delay,
                        matched |-> 0, held |-> 0, since |-> Len(log)]
      OBVIOUS
    <2>2. r \in [matcher : Kinds \cup {"any"}, skip : Nat, count : Nat, delay : Nat]
          /\ Len(log) \in Nat
      BY TrafficAssumption, LenProperties DEF Types
    <2>3. h \in HoldState /\ h.since = Len(log) /\ h.matched = 0 /\ h.held = 0
      BY <2>1, <2>2 DEF HoldState
    <2>4. [k EXCEPT !.hold = h] \in LinkKnobs /\ [k EXCEPT !.hold = h].hold = h
      BY <1>2, <2>3 DEF LinkKnobs
    <2>5. Knob(f, [k EXCEPT !.hold = h])
      BY <1>1, <1>6, <2>1 DEF SetHold
    <2> QED BY <2>3, <2>4, <2>5, KnobStep
  <1>7. ASSUME Reset(f) PROVE Types' /\ Timely' /\ Ends' /\ HoldCounts'
    <2>1. AtRest \in LinkKnobs /\ AtRest.hold = NoHold
      BY DEF AtRest, LinkKnobs, NoHold
    <2> QED BY <1>7, <2>1, KnobStep DEF Reset
  <1> QED BY <1>3, <1>4, <1>5, <1>6, <1>7, CloseStep

LEMMA TickStep ==
  ASSUME Types, Timely, Ends, HoldCounts, Tick
  PROVE  Types' /\ Timely' /\ Ends' /\ HoldCounts'
  <1>1. /\ now < MaxTime /\ now' = now + 1 /\ \A n \in InTransit : log[n].due > now
        /\ UNCHANGED <<chan, link, nextTx, last, log, pipe, faults>>
    BY DEF Tick
  <1>2. Types'
    <2>1. now' \in 0..MaxTime
      BY <1>1, BoundsAssumption DEF Types
    <2> QED BY <1>1, <2>1 DEF Types, chan, pipe, Ids
  <1>3. OnTime(log, now')
    <2>1. ASSUME NEW n \in 1..Len(log), log[n].fate = "transit" PROVE log[n].due >= now'
      <3>1. log[n] \in LogEntry
        BY <2>1, ElementOfSeq DEF Types
      <3>2. log[n].due \in Int /\ now \in Int
        BY <3>1 DEF LogEntry, Types
      <3> QED BY <1>1, <2>1, <3>2 DEF InTransit
    <2> QED BY <2>1 DEF OnTime
  <1> QED BY <1>1, <1>2, <1>3 DEF Timely, Ends, HoldCounts, Seen, pipe

LEMMA FaceStep == FaceInv /\ [Next]_vars => FaceInv'
  <1> SUFFICES ASSUME Types, Timely, Ends, HoldCounts, [Next]_vars
               PROVE  Types' /\ Timely' /\ Ends' /\ HoldCounts'
    BY DEF FaceInv
  <1>1. ASSUME NEW f \in Face, NEW k \in Kinds, NEW z \in Sizes,
               SendDown(f, k, z) \/ SendRefused(f, k, z) \/ SendLost(f, k, z)
                  \/ SendInline(f, k, z) \/ SendDelayed(f, k, z)
        PROVE  Types' /\ Timely' /\ Ends' /\ HoldCounts'
    BY <1>1, SendSettles, SendInlineStep, SendDelayedStep
  <1>2. CASE Send
    BY <1>1, <1>2 DEF Send
  <1>3. CASE Faults
    BY <1>3, FaultsStep DEF Faults
  <1>4. CASE Deliveries
    BY <1>4, ArriveStep, RecvStep DEF Deliveries
  <1>5. CASE Tick
    BY <1>5, TickStep
  <1>6. CASE UNCHANGED vars
    BY <1>6 DEF vars, chan, pipe, Types, Ids, Timely, Ends, HoldCounts, Seen
  <1> QED BY <1>2, <1>3, <1>4, <1>5, <1>6 DEF Next

LEMMA FaceSound == FaceInv => DeliverySound
  <1> SUFFICES ASSUME Types, Timely, Ends, HoldCounts PROVE DeliverySound
    BY DEF FaceInv
  <1>1. TypeOK
    <2>1. ASSUME NEW f \in Face
          PROVE  /\ link[f].down \in BOOLEAN /\ link[f].extra \in ExtraDelays \cup {0}
                 /\ link[f].loss \in LossClass \cup {"profile"}
      <3>1. link[f] \in LinkKnobs
        BY DEF Types
      <3> QED BY <3>1 DEF LinkKnobs
    <2>2. ASSUME NEW n \in Ids PROVE log[n].fate \in Fates
      <3>1. log[n] \in LogEntry
        BY <2>2, ElementOfSeq DEF Types, Ids
      <3> QED BY <3>1 DEF LogEntry
    <2> QED BY <2>1, <2>2 DEF TypeOK, Types, Fates
  <1>2. ASSUME NEW f \in Face
        PROVE  EndSound(Profile[f].reliable, open[f], Seen(f), ArrivedIn(log, f), CarriedIn(log, f))
    BY DEF Ends
  <1>3. \A f \in Face : Seen(f) = received[f] \o queue[f] \o waiters[f]
    BY DEF Seen, Lined
  <1>4. InOrder
    <2>1. ASSUME NEW f \in Face, Profile[f].reliable
          PROVE  /\ \A i, j \in 1..Len(Seen(f)) : i < j => Seen(f)[i] < Seen(f)[j]
                 /\ \A n \in InTransit : log[n].face = f => \A i \in 1..Len(Seen(f)) : Seen(f)[i] < n
      BY <1>2, <2>1 DEF EndSound, Ascending, Ahead, CarriedIn, InTransit
    <2> QED BY <1>3, <2>1 DEF InOrder
  <1>5. ArrivedOnce
    <2> SUFFICES ASSUME NEW f \in Face, open[f]
                 PROVE  LET seen == received[f] \o queue[f] \o waiters[f]
                            arrived == {n \in Ids : log[n].face = f /\ log[n].fate = "arrived"}
                        IN /\ Len(seen) = Cardinality(arrived)
                           /\ \A n \in arrived : \E i \in 1..Len(seen) : seen[i] = n
      BY DEF ArrivedOnce
    <2>1. PICK s, A : s = Seen(f) /\ A = ArrivedIn(log, f)
      OBVIOUS
    <2>2. EachOnce(s, A)
      BY <1>2, <2>1 DEF EndSound
    <2>3. Len(s) = Cardinality(A) /\ \A n \in A : \E i \in 1..Len(s) : s[i] = n
      BY <2>2 DEF EachOnce
    <2>4. received[f] \o queue[f] \o waiters[f] = s
      BY <1>3, <2>1
    <2>5. {n \in Ids : log[n].face = f /\ log[n].fate = "arrived"} = A
      BY <2>1 DEF ArrivedIn, Ids
    <2> DEFINE seen == received[f] \o queue[f] \o waiters[f]
               arrived == {n \in Ids : log[n].face = f /\ log[n].fate = "arrived"}
    <2>6. seen = s /\ arrived = A
      BY <2>4, <2>5
    <2> HIDE DEF seen, arrived
    <2>7. Len(seen) = Cardinality(arrived) /\ \A n \in arrived : \E i \in 1..Len(seen) : seen[i] = n
      BY <2>3, <2>6
    <2> QED BY <2>7 DEF seen, arrived
  <1>6. HoldWindow
    <2>1. ASSUME NEW f \in Face, link[f].hold # NoHold, NEW n \in MatchedIn(log, f, link[f].hold)
          PROVE  log[n].held <=> InWindow(link[f].hold, Position(MatchedIn(log, f, link[f].hold), n))
      BY <2>1 DEF HoldCounts, Counted
    <2> QED BY <2>1 DEF HoldWindow, MatchedIn, InWindow, Position, Ids
  <1> QED BY <1>1, <1>4, <1>5, <1>6 DEF DeliverySound

\* What the ends of a link rely on: on a stream, frames reach the far end in the order they were
\* sent, whatever delays, holds and resets hit them; a frame that arrived at an open end is in
\* the queue, waits for room or was read, exactly once; and a hold rule holds exactly the frames
\* of its window.
THEOREM DeliveryIsSound == Spec => []DeliverySound
  <1>1. Init => FaceInv
    BY FaceInit
  <1>2. FaceInv /\ [Next]_vars => FaceInv'
    BY FaceStep
  <1>3. FaceInv => DeliverySound
    BY FaceSound
  <1> QED BY <1>1, <1>2, <1>3, PTL DEF Spec
=============================================================================
