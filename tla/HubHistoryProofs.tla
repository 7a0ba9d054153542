-------------------------- MODULE HubHistoryProofs --------------------------
(***************************************************************************)
(* The ring buffer keeps the most recent events, for every length; and what *)
(* a room's history shows across crashes, for any number of publishers,      *)
(* events and crashes, and for every persister.                             *)
(***************************************************************************)
EXTENDS HubHistory, FiniteSetTheorems, WellFoundedInduction, TLAPS

-----------------------------------------------------------------------------
(* Induction over numbers. *)

\* A set of naturals has a least element.
LEMMA LeastNat ==
  ASSUME NEW T \in SUBSET Nat, T # {}
  PROVE  \E x \in T : \A y \in T : x <= y
<1> DEFINE R == {ss \in Nat \X Nat : ss[1] < ss[2]}
<1>1. IsWellFoundedOn(R, Nat)
  BY NatLessThanWellFounded, Zenon DEF OpToRel
<1> HIDE DEF R
<1>2. PICK x \in T : \A y \in T : ~(<<y, x>> \in R)
  BY <1>1, WFMin
<1>3. \A y \in T : ~(y < x)
  BY <1>2 DEF R
<1> QED BY <1>3

\* A set that has 0, and with each number below n the next, has all of them.
LEMMA UpTo ==
  ASSUME NEW n \in Nat, NEW T \in SUBSET Nat, 0 \in T, \A i \in 1 .. n : i - 1 \in T => i \in T
  PROVE  \A i \in 0 .. n : i \in T
<1> SUFFICES ASSUME (0 .. n) \ T # {} PROVE FALSE OBVIOUS
<1>0. (0 .. n) \ T \in SUBSET Nat OBVIOUS
<1>1. PICK i \in (0 .. n) \ T : \A j \in (0 .. n) \ T : i <= j BY <1>0, LeastNat
<1>2. i \in 1 .. n /\ i - 1 \in 0 .. n /\ ~(i <= i - 1) BY <1>1
<1> QED BY <1>1, <1>2

-----------------------------------------------------------------------------
(* The ring, for whatever is put into it. *)

\* A position stays on the ring.
LEMMA NextSlotOnRing == ASSUME NEW i \in Slot PROVE NextSlot(i) \in Slot
  BY SizeIsPositive DEF Slot, NextSlot

\* Appending keeps the ring a ring.
LEMMA PutOnRing ==
  ASSUME NEW r \in Rings, NEW e \in Event
  PROVE  Put(r, e) \in Rings
  BY NextSlotOnRing DEF Rings, Put

\* Every slot that GetHistory reads has been written.
Written(r) == \A i \in 1 .. Count(r) : r.slots[At(r, i)] \in Event

\* The number of entries grows up to Size - 1 and stays there.
LEMMA PutCount ==
  ASSUME NEW r \in Rings, NEW e \in Event
  PROVE  /\ Count(r) \in 0 .. Size - 1
         /\ Count(Put(r, e)) = IF Count(r) < Size - 1 THEN Count(r) + 1 ELSE Size - 1
  BY SizeIsPositive DEF Rings, Put, Count, NextSlot, Slot

\* Putting an event appends it to the contents, which lose their oldest entry when full.
LEMMA PutEntries ==
  ASSUME NEW r \in Rings, NEW e \in Event, NEW i \in 1 .. Count(Put(r, e))
  PROVE  Put(r, e).slots[At(Put(r, e), i)] =
           IF Count(r) < Size - 1
             THEN IF i = Count(r) + 1 THEN e ELSE r.slots[At(r, i)]
             ELSE IF i = Count(r) THEN e ELSE r.slots[At(r, i + 1)]
<1> DEFINE p == Put(r, e)
<1>1. /\ r.start \in Slot /\ r.end \in Slot
      /\ p.end = NextSlot(r.end)
      /\ p.start = IF NextSlot(r.end) = r.start THEN NextSlot(r.start) ELSE r.start
      /\ \A j \in Slot : p.slots[j] = IF j = r.end THEN e ELSE r.slots[j]
  BY DEF Rings, Put
<1>2. i \in Nat \ {0} /\ i <= IF Count(r) < Size - 1 THEN Count(r) + 1 ELSE Size - 1
  BY PutCount, SizeIsPositive
<1> HIDE DEF p
<1>3. CASE Count(r) < Size - 1
  <2>1. p.start = r.start
    BY <1>1, <1>3, SizeIsPositive DEF Count, NextSlot, Slot
  <2>2. At(p, i) = At(r, i) /\ At(r, i) \in Slot
    BY <2>1, <1>1, <1>2, <1>3, SizeIsPositive DEF At, Count, Slot
  <2>3. At(r, i) = r.end <=> i = Count(r) + 1
    BY <1>1, <1>2, <1>3, SizeIsPositive DEF At, Count, Slot
  <2> QED
    BY <1>1, <1>3, <2>2, <2>3 DEF p
<1>4. CASE ~(Count(r) < Size - 1)
  <2>1. p.start = NextSlot(r.start) /\ Count(r) = Size - 1
    BY <1>1, <1>4, PutCount, SizeIsPositive DEF Count, NextSlot, Slot
  <2>2. At(p, i) = At(r, i + 1) /\ At(p, i) \in Slot
    BY <2>1, <1>1, <1>2, <1>4, SizeIsPositive DEF At, NextSlot, Slot
  <2>3. At(p, i) = r.end <=> i = Count(r)
    BY <2>1, <1>1, <1>2, <1>4, SizeIsPositive DEF At, Count, NextSlot, Slot
  <2> QED
    BY <1>1, <1>4, <2>2, <2>3 DEF p
<1> QED
  BY <1>3, <1>4

\* A sequence is the function of its entries.
LEMMA EntriesOf ==
  ASSUME NEW S, NEW t \in Seq(S)
  PROVE  t = [i \in 1 .. Len(t) |-> t[i]]
  OBVIOUS

\* One Put is one step of RecentEvents.
LEMMA PutRemembers ==
  ASSUME NEW r \in Rings, NEW e \in Event, Written(r)
  PROVE  Contents(Put(r, e)) = Recent!Remembered(Contents(r), e)
<1>1. Contents(r) \in Seq(Event) /\ Len(Contents(r)) = Count(r)
  BY PutCount, SizeIsPositive DEF Contents, Written
<1>2. CASE Count(r) < Size - 1
  <2>1. Recent!Remembered(Contents(r), e) = Append(Contents(r), e)
    BY <1>1, <1>2, PutCount, SizeIsPositive DEF Recent!Remembered
  <2> QED
    BY SMTT(30), <1>1, <1>2, <2>1, PutCount, PutEntries, SizeIsPositive DEF Contents
<1>3. CASE Count(r) = Size - 1
  <2>1. Recent!Remembered(Contents(r), e) = Tail(Append(Contents(r), e))
    BY <1>1, <1>3, PutCount, SizeIsPositive DEF Recent!Remembered
  <2>2. /\ Len(Tail(Append(Contents(r), e))) = Size - 1
        /\ Tail(Append(Contents(r), e)) \in Seq(Event)
    BY <1>1, <1>3, SizeIsPositive
  <2>3. \A i \in 1 .. Size - 1 : Tail(Append(Contents(r), e))[i] =
                                   IF i = Size - 1 THEN e ELSE Contents(r)[i + 1]
    BY <1>1, <1>3, SizeIsPositive
  <2>4. Count(Put(r, e)) = Size - 1
    BY <1>3, PutCount
  <2>5. \A i \in 1 .. Size - 1 : Contents(Put(r, e))[i] =
                                   IF i = Size - 1 THEN e ELSE Contents(r)[i + 1]
    BY <1>3, <2>4, PutEntries, SizeIsPositive DEF Contents
  <2>6. Contents(Put(r, e)) = [i \in 1 .. Size - 1 |-> Contents(Put(r, e))[i]]
    BY <2>4 DEF Contents
  <2>7. Tail(Append(Contents(r), e)) =
          [i \in 1 .. Size - 1 |-> Tail(Append(Contents(r), e))[i]]
    BY <2>2, EntriesOf
  <2> QED
    BY ONLY <2>1, <2>3, <2>5, <2>6, <2>7
<1> QED
  BY <1>2, <1>3, PutCount, SizeIsPositive

\* What Put leaves between start and end has been written.
LEMMA PutWritten ==
  ASSUME NEW r \in Rings, NEW e \in Event, Written(r)
  PROVE  Written(Put(r, e))
  BY PutCount, PutEntries, SizeIsPositive DEF Written

-----------------------------------------------------------------------------
\* The inductive invariant: the shape of the ring, and no unwritten slot in its contents.
RInv == RingTypeOK /\ Written(ring)

\* It holds of the empty ring, whose contents are empty.
LEMMA InitRInv == RingInit => RInv /\ Contents(ring) = <<>>
<1> SUFFICES ASSUME RingInit PROVE RInv /\ Contents(ring) = <<>>
  OBVIOUS
<1>1. RingTypeOK
  BY SizeIsPositive DEF RingInit, EmptyRing, RingTypeOK, Rings, Slot
<1>2. Count(ring) = 0
  BY DEF RingInit, EmptyRing, Count
<1> QED
  BY <1>1, <1>2 DEF RInv, Written, Contents

\* Every append preserves it.
LEMMA StepRInv == RInv /\ [RingNext]_ring => RInv'
<1> SUFFICES ASSUME RInv, [RingNext]_ring PROVE RInv'
  OBVIOUS
<1>1. CASE RingNext
  BY <1>1, PutOnRing, PutWritten DEF RingNext, RInv, RingTypeOK
<1>2. CASE UNCHANGED ring
  BY <1>2 DEF RInv, RingTypeOK, Written, Count, At
<1> QED
  BY <1>1, <1>2

\* The ring keeps its shape: start and end stay on it.
THEOREM RingTyped == RingSpec => []RingTypeOK
<1>1. RInv => RingTypeOK
  BY DEF RInv
<1> QED
  BY <1>1, InitRInv, StepRInv, PTL DEF RingSpec

\* GetHistory never converts a slot that was not written: no nil reaches the type
\* assertion, whatever number of events has been put into a ring of whatever length.
THEOREM NoNilIsRead == RingSpec => []NoNilRead
<1>1. RInv => NoNilRead
  BY DEF RInv, Written, NoNilRead
<1> QED
  BY <1>1, InitRInv, StepRInv, PTL DEF RingSpec

\* The ring implements RecentEvents: GetHistory returns the last Size - 1 events put, in
\* the order they were put, for every length of the ring.
THEOREM RingIsRecent == RingSpec => IsRecent
<1>1. RingInit => Recent!Init
  BY InitRInv DEF Recent!Init
<1>2. RInv /\ [RingNext]_ring => [Recent!Next]_(Contents(ring))
  <2> SUFFICES ASSUME RInv, [RingNext]_ring PROVE [Recent!Next]_(Contents(ring))
    OBVIOUS
  <2>1. CASE RingNext
    <3>1. PICK e \in Event : ring' = Put(ring, e)
      BY <2>1 DEF RingNext
    <3>2. Contents(ring)' = Recent!Remembered(Contents(ring), e)
      BY <3>1, PutRemembers DEF RInv, RingTypeOK
    <3> QED
      BY <3>2 DEF Recent!Next, Recent!Add
  <2>2. CASE UNCHANGED ring
    BY <2>2 DEF Contents, Count, At
  <2> QED
    BY <2>1, <2>2
<1> QED
  BY <1>1, <1>2, InitRInv, StepRInv, PTL DEF RingSpec, Recent!Spec, IsRecent

-----------------------------------------------------------------------------
(* GetHistory's loop. *)

\* The ring as the loop sees what is left of it, with current at c.
From(r, c) == [r EXCEPT !.start = c]

\* One round of the loop: the entry at current, and what is left then.
LEMMA OneRound ==
  ASSUME NEW r \in Rings, NEW c \in Slot
  PROVE  LET n == From(r, NextSlot(c)) IN
         /\ From(r, c) \in Rings /\ Count(From(r, c)) \in Nat
         /\ c = r.end => Contents(From(r, c)) = <<>>
         /\ c # r.end => /\ Count(n) = Count(From(r, c)) - 1
                         /\ Contents(From(r, c)) = <<r.slots[c]>> \o Contents(n)
<1> DEFINE f == From(r, c)
           n == From(r, NextSlot(c))
<1>1. /\ f \in Rings /\ f.start = c /\ f.end = r.end /\ f.slots = r.slots
      /\ n \in Rings /\ n.start = NextSlot(c) /\ n.end = r.end /\ n.slots = r.slots
      /\ r.end \in Slot /\ NextSlot(c) \in Slot /\ r.slots \in [Slot -> Event \cup {Nil}]
  BY NextSlotOnRing DEF From, Rings
<1> HIDE DEF f, n
<1>2. Count(f) \in Nat /\ Count(n) \in Nat
  BY SMTT(30), <1>1, SizeIsPositive DEF Count, Slot
<1>3. ASSUME c = r.end PROVE Contents(f) = <<>>
  <2>1. Count(f) = 0
    BY <1>1, <1>3, SizeIsPositive DEF Count, Slot
  <2> QED BY <2>1 DEF Contents
<1>4. ASSUME c # r.end
      PROVE  Count(n) = Count(f) - 1 /\ Contents(f) = <<r.slots[c]>> \o Contents(n)
  <2>1. Count(n) = Count(f) - 1
    BY <1>1, <1>4, SizeIsPositive DEF Count, Slot, NextSlot
  <2>2. At(f, 1) = c
    BY <1>1, SizeIsPositive DEF At, Slot
  <2>3. ASSUME NEW i \in 1 .. Count(n) PROVE At(f, i + 1) = At(n, i) /\ At(n, i) \in Slot
    BY <1>1, <1>2, SizeIsPositive DEF At, Slot, NextSlot, Count
  <2>4. Contents(n) \in Seq(Event \cup {Nil}) /\ Len(Contents(n)) = Count(n)
    <3>1. Contents(n) \in [1 .. Count(n) -> Event \cup {Nil}]
      BY <1>1, <2>3 DEF Contents
    <3> QED BY <1>2, <3>1
  <2>5. r.slots[c] \in Event \cup {Nil}
    BY <1>1
  <2> DEFINE s == <<r.slots[c]>> \o Contents(n)
  <2>6. /\ s \in Seq(Event \cup {Nil}) /\ Len(s) = Count(f)
        /\ \A i \in 1 .. Count(f) : s[i] = IF i = 1 THEN r.slots[c] ELSE Contents(n)[i - 1]
    BY <1>2, <2>1, <2>4, <2>5
  <2>7. s = [i \in 1 .. Count(f) |-> s[i]]
    <3> HIDE DEF s
    <3> QED BY <2>6, EntriesOf
  <2> HIDE DEF s
  <2>8. ASSUME NEW i \in 1 .. Count(f) PROVE s[i] = f.slots[At(f, i)]
    <3>1. CASE i = 1
      BY <1>1, <2>2, <2>6, <3>1
    <3>2. CASE i # 1
      <4>1. i - 1 \in 1 .. Count(n) /\ (i - 1) + 1 = i
        BY <1>2, <2>1, <3>2
      <4>2. Contents(n)[i - 1] = n.slots[At(n, i - 1)]
        BY <4>1 DEF Contents
      <4>3. At(f, i) = At(n, i - 1)
        BY <2>3, <4>1
      <4> QED BY <1>1, <2>6, <3>2, <4>2, <4>3
    <3> QED BY <3>1, <3>2
  <2>9. Contents(f) = s
    BY <2>7, <2>8 DEF Contents
  <2> QED BY <2>1, <2>9 DEF s
<1> QED BY <1>1, <1>2, <1>3, <1>4 DEF f, n

\* The loop ends at the end pointer, wherever it starts, with the entries in between.
LEMMA LoopCollects ==
  ASSUME NEW r \in Rings
  PROVE  Walk(r) = Contents(r)
<1> DEFINE E(f) == [current \in Slot |->
                      IF current = r.end THEN <<>> ELSE <<r.slots[current]>> \o f[NextSlot(current)]]
           w == [c \in Slot |-> Contents(From(r, c))]
           from == CHOOSE f : f = E(f)
<1>1. w = E(w)
  <2>1. ASSUME NEW c \in Slot
        PROVE  w[c] = IF c = r.end THEN <<>> ELSE <<r.slots[c]>> \o w[NextSlot(c)]
    BY OneRound, NextSlotOnRing
  <2> HIDE DEF w
  <2>2. w = [c \in Slot |-> w[c]]
    BY DEF w
  <2> QED BY <2>1, <2>2
<1>2. from = E(from)
  <2> HIDE DEF w, E
  <2> QED BY <1>1
<1>3. \A c \in Slot : from[c] = IF c = r.end THEN <<>> ELSE <<r.slots[c]>> \o from[NextSlot(c)]
  <2> HIDE DEF from
  <2> QED BY <1>2
<1>4. Walk(r) = from[r.start]
  BY DEF Walk
<1> HIDE DEF w, E, from
<1> DEFINE T == {k \in Nat : \A c \in Slot :
                     Count(From(r, c)) <= k => from[c] = Contents(From(r, c))}
<1>5. ASSUME NEW c \in Slot, c # r.end,
             from[NextSlot(c)] = Contents(From(r, NextSlot(c)))
      PROVE  from[c] = Contents(From(r, c))
  <2>1. from[c] = <<r.slots[c]>> \o from[NextSlot(c)]
    BY <1>3, <1>5
  <2>2. Contents(From(r, c)) = <<r.slots[c]>> \o Contents(From(r, NextSlot(c)))
    BY <1>5, OneRound
  <2> QED BY <1>5, <2>1, <2>2
<1>6. ASSUME NEW c \in Slot, c = r.end PROVE from[c] = Contents(From(r, c))
  BY <1>3, <1>6, OneRound
<1>7. 0 \in T
  <2> SUFFICES ASSUME NEW c \in Slot, Count(From(r, c)) <= 0 PROVE from[c] = Contents(From(r, c))
    OBVIOUS
  <2>1. c # r.end => Count(From(r, NextSlot(c))) = Count(From(r, c)) - 1
    BY OneRound
  <2>2. Count(From(r, c)) \in Nat /\ Count(From(r, NextSlot(c))) \in Nat
    BY OneRound, NextSlotOnRing
  <2> QED BY <1>6, <2>1, <2>2
<1>8. ASSUME NEW k \in 1 .. Size, k - 1 \in T PROVE k \in T
  <2> SUFFICES ASSUME NEW c \in Slot, Count(From(r, c)) <= k PROVE from[c] = Contents(From(r, c))
    BY SizeIsPositive
  <2>1. CASE c = r.end
    BY <1>6, <2>1
  <2>2. CASE c # r.end
    <3>1. NextSlot(c) \in Slot /\ Count(From(r, NextSlot(c))) = Count(From(r, c)) - 1
      BY <2>2, OneRound, NextSlotOnRing
    <3>2. Count(From(r, c)) \in Nat
      BY OneRound
    <3>3. Count(From(r, NextSlot(c))) <= k - 1
      BY <3>1, <3>2
    <3>4. from[NextSlot(c)] = Contents(From(r, NextSlot(c)))
      BY <1>8, <3>1, <3>3
    <3> QED BY <1>5, <2>2, <3>4
  <2> QED BY <2>1, <2>2
<1>9. Size \in T
  <2> HIDE DEF T
  <2>1. T \in SUBSET Nat /\ Size \in Nat /\ Size \in 0 .. Size
    BY SizeIsPositive DEF T
  <2> QED BY <1>7, <1>8, <2>1, UpTo
<1>10. r.start \in Slot /\ From(r, r.start) = r /\ Count(r) <= Size
  BY SizeIsPositive DEF Rings, From, Count, Slot
<1> QED BY <1>4, <1>9, <1>10

\* GetHistory's loop ends and returns exactly the contents of the ring, in their order, for
\* every length of the ring and every filling.
THEOREM WalkReadsContents == RingSpec => []WalkIsContents
<1>1. RInv => WalkIsContents
  BY LoopCollects DEF RInv, RingTypeOK, WalkIsContents
<1> QED
  BY <1>1, InitRInv, StepRInv, PTL DEF RingSpec

-----------------------------------------------------------------------------
(* The ring of a room: one event, and then a batch of them. *)

\* A ring whose entries have all been written: what GetHistory returns are events.
Sound(r) == r \in Rings /\ \A i \in 1 .. Count(r) : Contents(r)[i] \in Events

\* The constants of the ring.
LEMMA RingConstants == /\ Size \in Nat \ {0} /\ Events \subseteq Event /\ Nil \notin Event
                       /\ Events \subseteq Nat /\ MaxEvents \in Nat
  BY SizeIsPositive, NilIsNoEvent, EventsAreNumbers, LimitsAreNat DEF Events

\* The contents are a sequence, one shorter than the ring at most.
LEMMA SoundContents ==
  ASSUME NEW r, Sound(r)
  PROVE  /\ Contents(r) \in Seq(Events) /\ Len(Contents(r)) = Count(r)
         /\ Count(r) \in 0 .. Size - 1
<1>1. Count(r) \in 0 .. Size - 1
  BY RingConstants DEF Sound, Rings, Slot, Count
<1>2. Contents(r) \in [1 .. Count(r) -> Events]
  BY DEF Sound, Contents
<1> QED BY <1>1, <1>2, RingConstants

\* The empty ring has no contents.
LEMMA EmptyIsSound == Sound(EmptyRing) /\ Contents(EmptyRing) = <<>>
<1>1. Count(EmptyRing) = 0
  BY DEF EmptyRing, Count
<1>2. EmptyRing \in Rings
  BY RingConstants DEF EmptyRing, Rings, Slot
<1> QED BY <1>1, <1>2 DEF Sound, Contents

\* One event goes to the end of the contents; the oldest is given up when they are full.
LEMMA PutContents ==
  ASSUME NEW r, Sound(r), NEW e \in Events
  PROVE  /\ Sound(Put(r, e))
         /\ Count(Put(r, e)) = IF Count(r) < Size - 1 THEN Count(r) + 1 ELSE Size - 1
         /\ \A i \in 1 .. Count(Put(r, e)) :
              Contents(Put(r, e))[i] =
                IF Count(r) < Size - 1
                  THEN IF i = Count(r) + 1 THEN e ELSE Contents(r)[i]
                  ELSE IF i = Count(r) THEN e ELSE Contents(r)[i + 1]
<1> DEFINE p == Put(r, e)
<1>0. r \in Rings /\ e \in Event BY RingConstants DEF Sound
<1>1. p \in Rings
  BY <1>0, RingConstants, PutOnRing
<1>2. Count(r) \in 0 .. Size - 1 /\ Count(p) = IF Count(r) < Size - 1 THEN Count(r) + 1 ELSE Size - 1
  BY <1>0, RingConstants, PutCount
<1>3. \A i \in 1 .. Count(p) :
        p.slots[At(p, i)] =
           IF Count(r) < Size - 1
             THEN IF i = Count(r) + 1 THEN e ELSE r.slots[At(r, i)]
             ELSE IF i = Count(r) THEN e ELSE r.slots[At(r, i + 1)]
  BY <1>0, RingConstants, PutEntries
<1> HIDE DEF p
<1>4. \A i \in 1 .. Count(p) :
        Contents(p)[i] =
           IF Count(r) < Size - 1
             THEN IF i = Count(r) + 1 THEN e ELSE Contents(r)[i]
             ELSE IF i = Count(r) THEN e ELSE Contents(r)[i + 1]
  BY <1>2, <1>3, RingConstants DEF Contents
<1>5. Sound(p)
  BY <1>1, <1>2, <1>4, RingConstants DEF Sound
<1> QED BY <1>2, <1>4, <1>5 DEF p

\* PutAll goes through the rings that one Put after the other makes.
LEMMA PutAllSteps ==
  ASSUME NEW r, NEW s \in Seq(Events)
  PROVE  \E put : /\ put[0] = r
                  /\ \A i \in 1 .. Len(s) : put[i] = Put(put[i - 1], s[i])
                  /\ PutAll(r, s) = put[Len(s)]
<1> DEFINE Of(f, k) == [i \in 0 .. k |-> IF i = 0 THEN r ELSE Put(f[i - 1], s[i])]
           T == {k \in Nat : \E f : f = Of(f, k)}
<1>1. 0 \in T
  <2>1. [i \in 0 .. 0 |-> r] = Of([i \in 0 .. 0 |-> r], 0) OBVIOUS
  <2> QED BY <2>1
<1>2. ASSUME NEW k \in 1 .. Len(s), k - 1 \in T PROVE k \in T
  <2>0. k \in Nat \ {0} OBVIOUS
  <2>1. PICK f : f = Of(f, k - 1) BY <1>2
  <2> DEFINE g == [i \in 0 .. k |-> IF i = k THEN Put(f[k - 1], s[k]) ELSE f[i]]
  <2>2. \A i \in 0 .. k : g[i] = IF i = 0 THEN r ELSE Put(g[i - 1], s[i])
    <3> TAKE i \in 0 .. k
    <3>1. CASE i = k
      <4>1. i # 0 /\ k - 1 \in 0 .. k /\ k - 1 # k BY <2>0, <3>1
      <4>2. g[k - 1] = f[k - 1] BY <4>1
      <4> QED BY <3>1, <4>1, <4>2
    <3>2. CASE i # k
      <4>1. i \in 0 .. k - 1 BY <3>2
      <4>2. g[i] = f[i] BY <3>2
      <4>3. f[i] = IF i = 0 THEN r ELSE Put(f[i - 1], s[i]) BY <2>1, <4>1
      <4>4. i # 0 => i - 1 \in 0 .. k /\ i - 1 # k /\ g[i - 1] = f[i - 1] BY <4>1
      <4> QED BY <4>2, <4>3, <4>4
    <3> QED BY <3>1, <3>2
  <2>3. g = Of(g, k)
    <3> HIDE DEF g
    <3>1. g = [i \in 0 .. k |-> g[i]] BY DEF g
    <3> QED BY <2>2, <3>1
  <2> QED BY <2>0, <2>3
<1>3. Len(s) \in Nat /\ Len(s) \in 0 .. Len(s) OBVIOUS
<1>4. Len(s) \in T
  <2> HIDE DEF T
  <2>1. T \in SUBSET Nat BY DEF T
  <2> QED BY <1>1, <1>2, <1>3, <2>1, UpTo
<1> DEFINE put == CHOOSE f : f = Of(f, Len(s))
<1>5. put = Of(put, Len(s)) BY <1>4
<1>6. PutAll(r, s) = put[Len(s)] BY DEF PutAll
<1> HIDE DEF put
<1>7. put[0] = r BY <1>3, <1>5
<1>8. ASSUME NEW i \in 1 .. Len(s) PROVE put[i] = Put(put[i - 1], s[i])
  BY <1>5
<1> QED BY <1>6, <1>7, <1>8

\* What was in the ring and then the batch, as one sequence.
Through(r, s, k) ==
  IF k <= Count(r) THEN Contents(r)[k] ELSE s[k - Count(r)]

\* PutAll keeps the last of the ring's contents and the batch, as many as fit.
LEMMA PutAllContents ==
  ASSUME NEW r, Sound(r), NEW s \in Seq(Events)
  PROVE  LET all == Count(r) + Len(s) IN
         /\ Sound(PutAll(r, s))
         /\ Count(PutAll(r, s)) = IF all < Size THEN all ELSE Size - 1
         /\ \A j \in 1 .. Count(PutAll(r, s)) :
              Contents(PutAll(r, s))[j] = Through(r, s, j + (all - Count(PutAll(r, s))))
<1> DEFINE c == Count(r)
           After(p, i) ==
             /\ Sound(p)
             /\ Count(p) = IF c + i < Size THEN c + i ELSE Size - 1
             /\ \A j \in 1 .. Count(p) :
                  Contents(p)[j] = Through(r, s, j + ((c + i) - Count(p)))
<1>1. PICK put : /\ put[0] = r
                 /\ \A i \in 1 .. Len(s) : put[i] = Put(put[i - 1], s[i])
                 /\ PutAll(r, s) = put[Len(s)]
  BY PutAllSteps
<1> DEFINE T == {i \in Nat : After(put[i], i)}
<1>2. c \in 0 .. Size - 1 BY SoundContents
<1>3. After(r, 0)
  BY <1>2, RingConstants DEF Through
<1>4. ASSUME NEW i \in 1 .. Len(s), After(put[i - 1], i - 1) PROVE After(put[i], i)
  <2> DEFINE q == put[i - 1]
             p == put[i]
  <2>0. s[i] \in Events /\ i \in Nat \ {0} OBVIOUS
  <2>1. p = Put(q, s[i]) BY <1>1
  <2>2. Sound(q) /\ Count(q) = IF c + (i - 1) < Size THEN c + (i - 1) ELSE Size - 1
    BY <1>4
  <2>3. \A j \in 1 .. Count(q) :
          Contents(q)[j] = Through(r, s, j + ((c + (i - 1)) - Count(q)))
    BY <1>4
  <2> HIDE DEF q, p
  <2>4. /\ Sound(p)
        /\ Count(p) = IF Count(q) < Size - 1 THEN Count(q) + 1 ELSE Size - 1
        /\ \A j \in 1 .. Count(p) :
             Contents(p)[j] = IF Count(q) < Size - 1
                  THEN IF j = Count(q) + 1 THEN s[i] ELSE Contents(q)[j]
                  ELSE IF j = Count(q) THEN s[i] ELSE Contents(q)[j + 1]
    BY <2>0, <2>1, <2>2, PutContents
  <2>5. Count(p) = IF c + i < Size THEN c + i ELSE Size - 1
    BY <2>0, <2>2, <2>4, <1>2, RingConstants
  <2>6. Through(r, s, c + i) = s[i]
    BY <2>0, <1>2, RingConstants DEF Through
  <2>7. ASSUME NEW j \in 1 .. Count(p)
        PROVE  Contents(p)[j] = Through(r, s, j + ((c + i) - Count(p)))
    <3>1. CASE c + i < Size
      <4>1. Count(q) = c + (i - 1) /\ Count(q) < Size - 1 /\ Count(p) = c + i
        BY <3>1, <2>0, <2>2, <2>5, <1>2, RingConstants
      <4>2. j + ((c + i) - Count(p)) = j BY <4>1, <2>0, <1>2, RingConstants
      <4>3. CASE j = c + i BY <4>1, <4>2, <4>3, <2>4, <2>6, <2>0, <1>2, RingConstants
      <4>4. CASE j # c + i
        <5>1. j \in 1 .. Count(q) BY <4>1, <4>4, <2>0, <1>2, RingConstants
        <5>2. j + ((c + (i - 1)) - Count(q)) = j BY <4>1, <2>0, <1>2, RingConstants
        <5>3. j # Count(q) + 1 BY <4>1, <4>4, <2>0, <1>2, RingConstants
        <5> QED BY <5>1, <5>2, <5>3, <4>1, <4>2, <2>3, <2>4
      <4> QED BY <4>3, <4>4
    <3>2. CASE ~(c + i < Size)
      <4>1. Count(q) = Size - 1 /\ Count(p) = Size - 1
        BY <3>2, <2>0, <2>2, <2>5, <1>2, RingConstants
      <4>2. CASE j = Size - 1
        <5>1. j + ((c + i) - Count(p)) = c + i BY <4>1, <4>2, <2>0, <1>2, RingConstants
        <5> QED BY <5>1, <4>1, <4>2, <2>4, <2>6, RingConstants
      <4>3. CASE j # Size - 1
        <5>1. j + 1 \in 1 .. Count(q) BY <4>1, <4>3, RingConstants
        <5>2. (j + 1) + ((c + (i - 1)) - Count(q)) = j + ((c + i) - Count(p))
          <6>1. j \in Int /\ c \in Int /\ i \in Int /\ Size - 1 \in Int
            BY <4>1, <2>0, <1>2, RingConstants
          <6> HIDE DEF c
          <6> QED BY <6>1, <4>1
        <5> QED BY <5>1, <5>2, <4>1, <4>3, <2>3, <2>4, RingConstants
      <4> QED BY <4>2, <4>3
    <3> QED BY <3>1, <3>2
  <2> QED BY <2>4, <2>5, <2>7 DEF p
<1> HIDE DEF After
<1>5. 0 \in T BY <1>1, <1>3
<1>6. \A i \in 1 .. Len(s) : i - 1 \in T => i \in T BY <1>4
<1>7. Len(s) \in T
  <2> HIDE DEF T
  <2>1. T \in SUBSET Nat /\ Len(s) \in Nat /\ Len(s) \in 0 .. Len(s) BY DEF T
  <2> QED BY <1>5, <1>6, <2>1, UpTo
<1> QED BY <1>1, <1>7 DEF After

-----------------------------------------------------------------------------
(* The invariant. *)

\* What waits to be taken was made in this room since the process started.
Fresh == {e \in Own : e > boot}
Rises(s) == \A i, j \in DOMAIN s : i < j => s[i] < s[j]

\* Of the events that a publisher made since then, those in S are older than those in T.
Precede(S, T) == \A e \in S, f \in T : e > boot /\ log[e].by = log[f].by => e < f

\* A batch is in the order in which it was made, and an outbox holds its publisher's events.
BatchesRise ==
  /\ \A p \in Publishers :
       ToSet(outbox[p]) \subseteq {e \in Fresh : log[e].by = p} /\ Rises(outbox[p])
  /\ \A i \in DOMAIN hq : ToSet(hq[i]) \subseteq Fresh /\ Rises(hq[i])

\* What was taken precedes the channel, the channel itself and the outboxes.
TakenSoFar == {e \in DOMAIN log : Taken(e)}
QueuesRise ==
  /\ \A i \in DOMAIN hq : Precede(TakenSoFar, ToSet(hq[i]))
  /\ \A p \in Publishers : Precede(TakenSoFar, ToSet(outbox[p]))
  /\ \A i, j \in DOMAIN hq : i < j => Precede(ToSet(hq[i]), ToSet(hq[j]))
  /\ \A i \in DOMAIN hq, p \in Publishers : Precede(ToSet(hq[i]), ToSet(outbox[p]))

\* The history: no event twice, what was loaded before what was published since, and that in
\* each publisher's order, ...
Ordered(s) ==
  \A i, j \in DOMAIN s :
    i < j => /\ s[i] # s[j]
             /\ s[i] > boot => s[j] > boot
             /\ s[i] > boot /\ log[s[i]].by = log[s[j]].by => s[i] < s[j]

\* ... with nothing missing behind an event that is shown.
NoGap ==
  \A e \in Shown, f \in Own :
    e > boot /\ e < f /\ log[e].by = log[f].by /\ Taken(f) => f \in Shown

Known == /\ Shown \subseteq DOMAIN log /\ \A e \in Shown : e > boot => Taken(e)
         /\ ToSet(storing) \subseteq DOMAIN log

IInv == /\ TypeOK /\ Sound(ring) /\ Known
        /\ LossWindow
        /\ BatchesRise /\ QueuesRise
        /\ Ordered(Contents(ring)) /\ NoGap

\* A batch is a sequence of events that is not empty.
LEMMA BatchIsSeq ==
  ASSUME NEW b \in Batches
  PROVE  b \in Seq(Events) /\ Len(b) \in 1 .. BatchMax /\ DOMAIN b = 1 .. Len(b) /\ b # <<>>
<1>1. BatchMax \in Nat \ {0} BY SizesArePositive
<1> QED BY <1>1 DEF Batches

\* What the invariant says of the parts of a state, as the proofs use it.
LEMMA StateFacts ==
  ASSUME IInv
  PROVE  /\ log \in Seq([by : Publishers \cup {Elsewhere}, sec : Nat]) /\ DOMAIN log = 1 .. Len(log)
         /\ Len(log) \in 0 .. MaxEvents /\ boot \in 0 .. Len(log)
         /\ \A p \in Publishers : outbox[p] \in Seq(Events)
         /\ \A i \in DOMAIN hq : hq[i] \in Batches /\ hq[i] \in Seq(Events)
         /\ Shown \subseteq 1 .. Len(log)
         /\ Fresh \subseteq boot + 1 .. Len(log)
         /\ Contents(ring) \in Seq(Events) /\ Len(Contents(ring)) = Count(ring)
         /\ Count(ring) \in 0 .. Size - 1
<1> USE DEF IInv
<1>1. log \in Seq([by : Publishers \cup {Elsewhere}, sec : Nat]) /\ DOMAIN log = 1 .. Len(log)
  BY DEF TypeOK
<1>2. Len(log) \in 0 .. MaxEvents /\ boot \in 0 .. Len(log)
  BY <1>1, RingConstants DEF TypeOK
<1>3. ASSUME NEW p \in Publishers PROVE outbox[p] \in Seq(Events)
  <2>1. outbox[p] \in Batches \/ outbox[p] = <<>> BY DEF TypeOK
  <2>2. <<>> \in Seq(Events) OBVIOUS
  <2> QED BY <2>1, <2>2, BatchIsSeq
<1>4. \A i \in DOMAIN hq : hq[i] \in Batches /\ hq[i] \in Seq(Events)
  BY BatchIsSeq DEF TypeOK
<1>5. Shown \subseteq 1 .. Len(log)
  BY <1>1 DEF Known
<1>6. Fresh \subseteq boot + 1 .. Len(log)
  BY <1>1, <1>2 DEF Fresh, Own
<1> QED BY <1>1, <1>2, <1>3, <1>4, <1>5, <1>6, SoundContents

\* A log that grows keeps what is known of the events in it.
LEMMA LogGrows ==
  ASSUME IInv, NEW rest \in Seq([by : Publishers \cup {Elsewhere}, sec : Nat]), log' = log \o rest
  PROVE  /\ log' \in Seq([by : Publishers \cup {Elsewhere}, sec : Nat])
         /\ Len(log') = Len(log) + Len(rest) /\ DOMAIN log' = 1 .. Len(log')
         /\ \A e \in 1 .. Len(log) : log'[e] = log[e]
         /\ \A i \in 1 .. Len(rest) : log'[Len(log) + i] = rest[i]
         /\ 1 .. Len(log) \subseteq 1 .. Len(log')
<1>1. log \in Seq([by : Publishers \cup {Elsewhere}, sec : Nat]) BY StateFacts
<1> QED BY <1>1

\* Nothing has happened at first.
LEMMA InitIInv == Init => IInv
<1> SUFFICES ASSUME Init PROVE IInv OBVIOUS
<1> USE DEF Init
<1>1. Sound(ring) /\ Contents(ring) = <<>> BY EmptyIsSound
<1>2. Shown = {} BY <1>1 DEF Shown, ToSet
<1>3. TypeOK
  <2>1. ChanCap \in Nat /\ MaxCrashes \in Nat /\ MaxEvents \in Nat BY SizesArePositive, LimitsAreNat
  <2>2. ring \in Rings BY <1>1 DEF Sound
  <2> QED BY <2>1, <2>2 DEF TypeOK
<1>4. BatchesRise /\ QueuesRise
  <2>1. TakenSoFar = {} BY DEF TakenSoFar
  <2> QED BY <2>1 DEF BatchesRise, QueuesRise, ToSet, Rises, Precede
<1>5. Known /\ NoGap /\ LossWindow BY <1>2 DEF Known, NoGap, LossWindow, ToSet
<1>6. Ordered(Contents(ring)) BY <1>1 DEF Ordered
<1> QED BY <1>1, <1>3, <1>4, <1>5, <1>6 DEF IInv

\* NewEvent: the new events are the youngest, and wait in their publisher's outbox.
LEMMA CreateStep ==
  ASSUME IInv, NEW p \in Publishers, NEW n \in 1 .. BatchMax, NEW s \in Nat,
         outbox[p] = <<>>, Len(log) + n <= MaxEvents,
         log' = log \o [i \in 1 .. n |-> [by |-> p, sec |-> s]],
         outbox' = [outbox EXCEPT ![p] = [i \in 1 .. n |-> Len(log) + i]],
         UNCHANGED <<backend, hq, ring, storing, stored, failed, crashes, boot>>
  PROVE  IInv'
<1> DEFINE new == [i \in 1 .. n |-> Len(log) + i]
           rest == [i \in 1 .. n |-> [by |-> p, sec |-> s]]
<1>0. n \in Nat /\ n >= 1 BY SizesArePositive
<1>1. rest \in Seq([by : Publishers \cup {Elsewhere}, sec : Nat]) /\ Len(rest) = n BY <1>0
<1>2. /\ log' \in Seq([by : Publishers \cup {Elsewhere}, sec : Nat])
      /\ Len(log') = Len(log) + n /\ DOMAIN log' = 1 .. Len(log')
      /\ \A e \in 1 .. Len(log) : log'[e] = log[e]
      /\ \A i \in 1 .. n : log'[Len(log) + i] = [by |-> p, sec |-> s]
      /\ 1 .. Len(log) \subseteq 1 .. Len(log')
  <2> HIDE DEF rest
  <2>1. log' = log \o rest BY DEF rest
  <2> QED BY <1>1, <2>1, LogGrows DEF rest
<1>3. DOMAIN log = 1 .. Len(log) /\ Len(log) \in Nat /\ boot \in 0 .. Len(log) /\ Len(log') <= MaxEvents
      /\ MaxEvents \in Nat
  BY <1>2, StateFacts, RingConstants
<1>4. \A q \in Publishers : outbox'[q] = IF q = p THEN new ELSE outbox[q]
  BY DEF IInv, TypeOK
<1>5. ToSet(new) = Len(log) + 1 .. Len(log')
  <2>1. \A e \in Len(log) + 1 .. Len(log') : e - Len(log) \in 1 .. n /\ e = Len(log) + (e - Len(log))
    BY <1>0, <1>2, <1>3
  <2>2. \A i \in 1 .. n : Len(log) + i \in Len(log) + 1 .. Len(log')
    BY <1>0, <1>2, <1>3
  <2> QED BY <2>1, <2>2 DEF ToSet
<1>6. new \in Batches
  <2>1. new \in [1 .. n -> Events] BY <1>0, <1>2, <1>3 DEF Events
  <2> QED BY <2>1 DEF Batches
<1> HIDE DEF new
<1>7. \A e \in Len(log) + 1 .. Len(log') : log'[e].by = p
  <2> TAKE e \in Len(log) + 1 .. Len(log')
  <2>1. e - Len(log) \in 1 .. n /\ e = Len(log) + (e - Len(log)) BY <1>0, <1>2, <1>3
  <2> QED BY <2>1, <1>2
<1>8. TypeOK'
  <2>1. outbox' \in [Publishers -> Batches \cup {<<>>}] BY <1>6 DEF IInv, TypeOK, new
  <2>2. boot \in 0 .. Len(log') BY <1>2, <1>3
  <2> QED BY <1>2, <1>3, <2>1, <2>2 DEF IInv, TypeOK
<1>9. UNCHANGED <<Contents(ring), Shown>> /\ (Sound(ring))'
  BY DEF IInv, Contents, Count, At, Shown, Sound
<1>10. \A q \in Publishers : ToSet(outbox'[q]) = IF q = p THEN ToSet(new) ELSE ToSet(outbox[q])
  <2> TAKE q \in Publishers
  <2>1. CASE q = p
    <3>1. outbox'[q] = new BY <2>1, <1>4
    <3>2. ToSet(outbox'[q]) = ToSet(new) BY <3>1
    <3> QED BY <2>1, <3>2
  <2>2. CASE q # p BY <2>2, <1>4
  <2> QED BY <2>1, <2>2
<1>11. \A e \in 1 .. Len(log) : Taken(e)' <=> Taken(e)
  <2>1. \A e \in 1 .. Len(log) : e \notin ToSet(new) BY <1>3, <1>5
  <2>2. ToSet(outbox[p]) = {} BY DEF ToSet
  <2> QED BY <2>1, <2>2, <1>10 DEF Taken
<1>12. \A e \in Len(log) + 1 .. Len(log') : ~Taken(e)'
  BY <1>5, <1>10 DEF Taken
<1>13. TakenSoFar' = TakenSoFar /\ TakenSoFar \subseteq 1 .. Len(log)
  BY <1>2, <1>3, <1>11, <1>12 DEF TakenSoFar
<1>14. Fresh \subseteq Fresh' /\ Fresh \subseteq 1 .. Len(log) /\ Len(log) + 1 .. Len(log') \subseteq Fresh'
  BY <1>2, <1>3, <1>7, PublishersHere DEF Fresh, Own
<1>15. Known' /\ LossWindow'
  BY <1>2, <1>3, <1>9, <1>11 DEF IInv, Known, LossWindow
<1>16. \A q \in Publishers : ToSet(outbox[q]) \subseteq 1 .. Len(log)
  BY <1>14 DEF IInv, BatchesRise
<1>17. \A i \in DOMAIN hq : ToSet(hq[i]) \subseteq 1 .. Len(log)
  BY <1>14 DEF IInv, BatchesRise
<1>18. BatchesRise'
  <2>1. Rises(new) BY <1>0, <1>3 DEF Rises, new
  <2>2. ASSUME NEW q \in Publishers
        PROVE  ToSet(outbox'[q]) \subseteq {e \in Fresh' : log'[e].by = q} /\ Rises(outbox'[q])
    <3>1. CASE q = p BY <3>1, <2>1, <1>4, <1>5, <1>7, <1>14
    <3>2. CASE q # p BY ZenonT(40), <3>2, <1>2, <1>4, <1>14, <1>16 DEF IInv, BatchesRise
    <3> QED BY <3>1, <3>2
  <2>3. \A i \in DOMAIN hq : ToSet(hq[i]) \subseteq Fresh' /\ Rises(hq[i])
    BY <1>14 DEF IInv, BatchesRise
  <2> QED BY <2>2, <2>3 DEF BatchesRise
<1>19. QueuesRise'
  <2> DEFINE Older(S, T) == \A e \in S, f \in T : e > boot /\ log'[e].by = log'[f].by => e < f
  <2>1. ASSUME NEW S \in SUBSET (1 .. Len(log)), NEW T \in SUBSET (1 .. Len(log)), Precede(S, T)
        PROVE  Older(S, T)
    BY <2>1, <1>2 DEF Precede
  <2>2. ASSUME NEW S \in SUBSET (1 .. Len(log)) PROVE Older(S, ToSet(new))
    <3>1. \A e \in S, f \in Len(log) + 1 .. Len(log') : e < f BY <1>2, <1>3
    <3> QED BY <3>1, <1>5
  <2> HIDE DEF Older
  <2>3. \A i \in DOMAIN hq : Older(TakenSoFar, ToSet(hq[i]))
    BY <2>1, <1>13, <1>17 DEF IInv, QueuesRise
  <2>4. ASSUME NEW q \in Publishers PROVE Older(TakenSoFar, ToSet(outbox'[q]))
    <3>1. CASE q = p BY <3>1, <2>2, <1>4, <1>13
    <3>2. CASE q # p BY <3>2, <2>1, <1>4, <1>13, <1>16 DEF IInv, QueuesRise
    <3> QED BY <3>1, <3>2
  <2>5. \A i, j \in DOMAIN hq : i < j => Older(ToSet(hq[i]), ToSet(hq[j]))
    BY <2>1, <1>17 DEF IInv, QueuesRise
  <2>6. ASSUME NEW i \in DOMAIN hq, NEW q \in Publishers PROVE Older(ToSet(hq[i]), ToSet(outbox'[q]))
    <3>1. CASE q = p BY <3>1, <2>2, <1>4, <1>17
    <3>2. CASE q # p BY <3>2, <2>1, <1>4, <1>16, <1>17 DEF IInv, QueuesRise
    <3> QED BY <3>1, <3>2
  <2>7. \A i \in DOMAIN hq : Precede(TakenSoFar, ToSet(hq[i]))'
    BY <2>3, <1>13 DEF Precede, Older
  <2>8. \A q \in Publishers : Precede(TakenSoFar, ToSet(outbox[q]))'
    BY <2>4, <1>13 DEF Precede, Older
  <2>9. \A i, j \in DOMAIN hq : i < j => Precede(ToSet(hq[i]), ToSet(hq[j]))'
    BY <2>5 DEF Precede, Older
  <2>10. \A i \in DOMAIN hq, q \in Publishers : Precede(ToSet(hq[i]), ToSet(outbox[q]))'
    BY <2>6 DEF Precede, Older
  <2> QED BY <2>7, <2>8, <2>9, <2>10 DEF QueuesRise
<1>20. Ordered(Contents(ring))'
  <2> DEFINE c == Contents(ring)
  <2>1. \A i \in DOMAIN c : c[i] \in 1 .. Len(log) BY StateFacts DEF Shown, ToSet
  <2> HIDE DEF c
  <2>2. Ordered(c)' BY <2>1, <1>2, <1>9 DEF IInv, Ordered, c
  <2> QED BY <2>2 DEF c
<1>21. NoGap'
  <2> SUFFICES ASSUME NEW e \in Shown, NEW f \in Own', e > boot, e < f, log'[e].by = log'[f].by, Taken(f)'
               PROVE  f \in Shown
    BY <1>9 DEF NoGap
  <2>1. e \in 1 .. Len(log) BY StateFacts
  <2>2. f \in 1 .. Len(log) BY <1>2, <1>3, <1>12 DEF Own
  <2> QED BY <2>1, <2>2, <1>2, <1>3, <1>11 DEF IInv, NoGap, Own
<1> QED BY <1>8, <1>9, <1>15, <1>18, <1>19, <1>20, <1>21 DEF IInv

\* Another room's hub stores an event in the shared database: none of this room's.
LEMMA StoreElsewhereStep ==
  ASSUME IInv, NEW s \in Nat, Len(log) < MaxEvents,
         log' = Append(log, [by |-> Elsewhere, sec |-> s]),
         stored' = stored \cup {Len(log) + 1},
         UNCHANGED <<backend, outbox, hq, ring, storing, failed, crashes, boot>>
  PROVE  IInv'
<1> DEFINE g == Len(log) + 1
           rest == <<[by |-> Elsewhere, sec |-> s]>>
<1>1. rest \in Seq([by : Publishers \cup {Elsewhere}, sec : Nat]) /\ Len(rest) = 1
      /\ rest[1] = [by |-> Elsewhere, sec |-> s]
  OBVIOUS
<1>2. /\ log' \in Seq([by : Publishers \cup {Elsewhere}, sec : Nat])
      /\ Len(log') = g /\ DOMAIN log' = 1 .. g
      /\ \A e \in 1 .. Len(log) : log'[e] = log[e]
      /\ log'[g] = [by |-> Elsewhere, sec |-> s]
      /\ 1 .. Len(log) \subseteq 1 .. g
  <2> HIDE DEF rest
  <2>1. log' = log \o rest
    <3>1. log \in Seq([by : Publishers \cup {Elsewhere}, sec : Nat]) BY StateFacts
    <3> QED BY <3>1 DEF rest
  <2>2. 1 \in 1 .. Len(rest) BY <1>1
  <2> QED BY <1>1, <2>1, <2>2, LogGrows
<1>3. DOMAIN log = 1 .. Len(log) /\ Len(log) \in Nat /\ boot \in 0 .. Len(log) /\ g <= MaxEvents
      /\ MaxEvents \in Nat /\ g \notin 1 .. Len(log) /\ g \in Nat
      /\ \A e \in 1 .. g : e \in 1 .. Len(log) \/ e = g
  BY <1>2, StateFacts, RingConstants
<1> HIDE DEF rest, g
<1>4. TypeOK'
  <2>1. boot \in 0 .. g /\ g \in 1 .. g BY <1>2, <1>3 DEF g
  <2>2. stored' \subseteq 1 .. g BY <2>1, <1>2, <1>3 DEF IInv, TypeOK, g
  <2>3. failed \subseteq 1 .. g BY <1>2, <1>3 DEF IInv, TypeOK
  <2> QED BY <1>2, <1>3, <2>1, <2>2, <2>3 DEF IInv, TypeOK
<1>5. UNCHANGED <<Contents(ring), Shown>> /\ (Sound(ring))'
  BY DEF IInv, Contents, Count, At, Shown, Sound
<1>6. \A e : Taken(e)' <=> Taken(e)
  BY DEF Taken
<1>7. TakenSoFar' \subseteq TakenSoFar \cup {g} /\ TakenSoFar \subseteq 1 .. Len(log)
  BY <1>2, <1>3, <1>6 DEF TakenSoFar
<1>8. Fresh' = Fresh /\ Own' = Own /\ Fresh \subseteq 1 .. Len(log) /\ g \notin Own
  BY <1>2, <1>3 DEF Fresh, Own
<1>9. Known' /\ LossWindow'
  BY <1>2, <1>3, <1>5, <1>6 DEF IInv, Known, LossWindow
<1>10. BatchesRise'
  <2>1. \A e \in Fresh : log'[e] = log[e] BY <1>2, <1>8
  <2> QED BY ZenonT(40), <1>8, <2>1 DEF IInv, BatchesRise
<1>11. (\A i \in DOMAIN hq : ToSet(hq[i]) \subseteq Fresh) /\ (\A q \in Publishers : ToSet(outbox[q]) \subseteq Fresh)
  BY DEF IInv, BatchesRise
<1>12. QueuesRise'
  <2> DEFINE Older(S, T) == \A e \in S, f \in T : e > boot /\ log'[e].by = log'[f].by => e < f
  <2>1. ASSUME NEW S \in SUBSET (1 .. Len(log)), NEW T \in SUBSET Fresh, Precede(S, T)
        PROVE  Older(S, T)
    BY <2>1, <1>2, <1>8 DEF Precede
  <2>2. ASSUME NEW T \in SUBSET Fresh, Precede(TakenSoFar, T)
        PROVE  Older(TakenSoFar', T)
    <3>1. \A f \in T : log'[f].by # log'[g].by BY <1>2, <1>8 DEF Fresh, Own
    <3> QED BY <2>2, <3>1, <2>1, <1>7
  <2> HIDE DEF Older
  <2>3. \A i \in DOMAIN hq : Older(TakenSoFar', ToSet(hq[i]))
    BY <2>2, <1>11 DEF IInv, QueuesRise
  <2>4. \A q \in Publishers : Older(TakenSoFar', ToSet(outbox[q]))
    BY <2>2, <1>11 DEF IInv, QueuesRise
  <2>5. \A i, j \in DOMAIN hq : i < j => Older(ToSet(hq[i]), ToSet(hq[j]))
    BY <2>1, <1>8, <1>11 DEF IInv, QueuesRise
  <2>6. \A i \in DOMAIN hq, q \in Publishers : Older(ToSet(hq[i]), ToSet(outbox[q]))
    BY <2>1, <1>8, <1>11 DEF IInv, QueuesRise
  <2>7. \A i \in DOMAIN hq : Precede(TakenSoFar, ToSet(hq[i]))'
    BY <2>3 DEF Precede, Older
  <2>8. \A q \in Publishers : Precede(TakenSoFar, ToSet(outbox[q]))'
    BY <2>4 DEF Precede, Older
  <2>9. \A i, j \in DOMAIN hq : i < j => Precede(ToSet(hq[i]), ToSet(hq[j]))'
    BY <2>5 DEF Precede, Older
  <2>10. \A i \in DOMAIN hq, q \in Publishers : Precede(ToSet(hq[i]), ToSet(outbox[q]))'
    BY <2>6 DEF Precede, Older
  <2> QED BY <2>7, <2>8, <2>9, <2>10 DEF QueuesRise
<1>13. Ordered(Contents(ring))'
  <2> DEFINE c == Contents(ring)
  <2>1. \A i \in DOMAIN c : c[i] \in 1 .. Len(log) BY StateFacts DEF Shown, ToSet
  <2> HIDE DEF c
  <2>2. Ordered(c)' BY <2>1, <1>2, <1>5 DEF IInv, Ordered, c
  <2> QED BY <2>2 DEF c
<1>14. NoGap'
  <2>1. \A e \in Shown, f \in Own : log'[e] = log[e] /\ log'[f] = log[f]
    BY <1>2, <1>3, StateFacts DEF Own
  <2> QED BY <2>1, <1>5, <1>6, <1>8 DEF IInv, NoGap
<1> QED BY <1>4, <1>5, <1>9, <1>10, <1>12, <1>13, <1>14 DEF IInv

\* A publisher's batch goes from its outbox to the end of the channel.
LEMMA SendStep ==
  ASSUME IInv, NEW p \in Publishers, Send(p)
  PROVE  IInv'
<1> DEFINE b == outbox[p]
           n == Len(hq) + 1
<1>1. /\ b # <<>> /\ Len(hq) < ChanCap /\ hq' = Append(hq, b)
      /\ outbox' = [outbox EXCEPT ![p] = <<>>]
      /\ UNCHANGED <<backend, log, ring, storing, stored, failed, crashes, boot>>
  BY DEF Send, HasRoom
<1>2. b \in Batches /\ hq \in Seq(Batches) /\ outbox \in [Publishers -> Batches \cup {<<>>}] /\ ChanCap \in Nat
  BY <1>1, SizesArePositive DEF IInv, TypeOK
<1>3. /\ hq' \in Seq(Batches) /\ DOMAIN hq' = 1 .. n /\ DOMAIN hq = 1 .. Len(hq) /\ Len(hq) \in Nat
      /\ Len(hq') = n /\ n \in DOMAIN hq' /\ hq'[n] = b /\ \A i \in DOMAIN hq : hq'[i] = hq[i] /\ i < n
      /\ \A i \in DOMAIN hq' : i \in DOMAIN hq \/ i = n
  BY <1>1, <1>2
<1>4. \A q \in Publishers : outbox'[q] = IF q = p THEN <<>> ELSE outbox[q]
  BY <1>1, <1>2
<1>5. TypeOK' BY <1>1, <1>2, <1>3 DEF IInv, TypeOK
<1>6. UNCHANGED <<Contents(ring), Shown, Fresh, Own>> /\ (Sound(ring))'
  BY <1>1 DEF IInv, Contents, Count, At, Shown, Sound, Fresh, Own
<1> HIDE DEF b, n
<1>7. \A e : Taken(e)' <=> Taken(e)
  <2> TAKE e
  <2>1. Taken(e)' => Taken(e)
    <3> SUFFICES ASSUME Taken(e)' PROVE Taken(e) OBVIOUS
    <3>1. \A i \in DOMAIN hq : e \notin ToSet(hq[i]) BY <1>3 DEF Taken
    <3>2. e \notin ToSet(b) BY <1>3 DEF Taken
    <3>3. \A q \in Publishers : e \notin ToSet(outbox[q]) BY <1>4, <3>2 DEF Taken, b
    <3> QED BY <1>1, <3>1, <3>3 DEF Taken
  <2>2. Taken(e) => Taken(e)'
    <3> SUFFICES ASSUME Taken(e) PROVE Taken(e)' OBVIOUS
    <3>1. \A i \in DOMAIN hq' : e \notin ToSet(hq'[i]) BY <1>3 DEF Taken, b
    <3>2. ASSUME NEW q \in Publishers PROVE e \notin ToSet(outbox'[q])
      <4>1. CASE q = p BY <4>1, <1>4 DEF ToSet
      <4>2. CASE q # p BY <4>2, <1>4 DEF Taken
      <4> QED BY <4>1, <4>2
    <3> QED BY <1>1, <3>1, <3>2 DEF Taken
  <2> QED BY <2>1, <2>2
<1>8. TakenSoFar' = TakenSoFar BY <1>1, <1>7 DEF TakenSoFar
<1>9. \A S, T : Precede(S, T)' = Precede(S, T)
  BY <1>1 DEF Precede
<1>10. Known' /\ LossWindow' /\ NoGap'
  BY <1>1, <1>6, <1>7 DEF IInv, Known, LossWindow, NoGap
<1>11. \A q \in Publishers : outbox'[q] = outbox[q] \/ (ToSet(outbox'[q]) = {} /\ Rises(outbox'[q]))
  <2> TAKE q \in Publishers
  <2>1. CASE q = p
    <3>1. outbox'[q] = <<>> BY <2>1, <1>4
    <3>2. ToSet(<<>>) = {} /\ Rises(<<>>) BY DEF ToSet, Rises
    <3> QED BY <3>1, <3>2
  <2>2. CASE q # p
    <3>1. outbox'[q] = outbox[q] BY <2>2, <1>4
    <3> QED BY <3>1
  <2> QED BY <2>1, <2>2
<1>12. BatchesRise'
  <2>1. \A i \in DOMAIN hq' : ToSet(hq'[i]) \subseteq Fresh' /\ Rises(hq'[i])
    BY <1>3, <1>6 DEF IInv, BatchesRise, b
  <2>2. \A q \in Publishers : ToSet(outbox'[q]) \subseteq {e \in Fresh' : log'[e].by = q} /\ Rises(outbox'[q])
    BY <1>1, <1>6, <1>11 DEF IInv, BatchesRise
  <2> QED BY <2>1, <2>2 DEF BatchesRise
<1>13. QueuesRise'
  <2> DEFINE Older(S, T) == \A e \in S, f \in T : e > boot /\ log[e].by = log[f].by => e < f
  <2>1. \A S, T : Precede(S, T) <=> Older(S, T) BY DEF Precede
  <2>2. \A S : Older(S, {}) OBVIOUS
  <2>3. ASSUME NEW e \in ToSet(b), NEW q \in Publishers, NEW f \in ToSet(outbox'[q]) PROVE log[e].by # log[f].by
    <3>1. log[e].by = p BY DEF IInv, BatchesRise, b
    <3>2. q # p BY <1>4 DEF ToSet
    <3>3. log[f].by = q BY <1>4, <3>2 DEF IInv, BatchesRise
    <3> QED BY <3>1, <3>2, <3>3
  <2>4. \A q \in Publishers : Older(ToSet(b), ToSet(outbox'[q])) BY <2>3
  <2> HIDE DEF Older
  <2>5. \A i \in DOMAIN hq' : Older(TakenSoFar, ToSet(hq'[i]))
    BY <1>3, <2>1 DEF IInv, QueuesRise, b
  <2>6. \A q \in Publishers : Older(TakenSoFar, ToSet(outbox'[q]))
    BY <1>11, <2>1, <2>2 DEF IInv, QueuesRise
  <2>7. ASSUME NEW i \in DOMAIN hq', NEW j \in DOMAIN hq', i < j PROVE Older(ToSet(hq'[i]), ToSet(hq'[j]))
    <3>1. i \in DOMAIN hq BY <2>7, <1>3 DEF n
    <3>2. CASE j = n BY <3>1, <3>2, <1>3, <2>1 DEF IInv, QueuesRise, b
    <3>3. CASE j # n BY <2>7, <3>1, <3>3, <1>3, <2>1 DEF IInv, QueuesRise
    <3> QED BY <3>2, <3>3
  <2>8. ASSUME NEW i \in DOMAIN hq', NEW q \in Publishers PROVE Older(ToSet(hq'[i]), ToSet(outbox'[q]))
    <3>1. CASE i = n BY <3>1, <2>4, <1>3
    <3>2. CASE i # n BY <3>2, <1>3, <1>11, <2>1, <2>2 DEF IInv, QueuesRise
    <3> QED BY <3>1, <3>2
  <2>9. \A i \in DOMAIN hq' : Precede(TakenSoFar, ToSet(hq[i]))'
    BY <2>5, <1>1, <1>8 DEF Precede, Older
  <2>10. \A q \in Publishers : Precede(TakenSoFar, ToSet(outbox[q]))'
    BY <2>6, <1>1, <1>8 DEF Precede, Older
  <2>11. \A i, j \in DOMAIN hq' : i < j => Precede(ToSet(hq[i]), ToSet(hq[j]))'
    BY <2>7, <1>1 DEF Precede, Older
  <2>12. \A i \in DOMAIN hq', q \in Publishers : Precede(ToSet(hq[i]), ToSet(outbox[q]))'
    BY <2>8, <1>1 DEF Precede, Older
  <2> QED BY <2>9, <2>10, <2>11, <2>12 DEF QueuesRise
<1>14. Ordered(Contents(ring))'
  <2> DEFINE c == Contents(ring)
  <2> HIDE DEF c
  <2>2. Ordered(c)' BY <1>1, <1>6 DEF IInv, Ordered, c
  <2> QED BY <2>2 DEF c
<1> QED BY <1>5, <1>6, <1>10, <1>12, <1>13, <1>14 DEF IInv

\* Hub.Run takes the oldest batch: it goes to the end of the history and to StoreEvents.
LEMMA HubTakeStep ==
  ASSUME IInv, HubTake
  PROVE  IInv'
<1> DEFINE b == Head(hq)
           c == Count(ring)
           d == Count(PutAll(ring, b))
           all == c + Len(b)
           A(k) == Through(ring, b, k)
<1>1. /\ storing = <<>> /\ hq # <<>> /\ ring' = PutAll(ring, b) /\ storing' = ToPersist(b) /\ hq' = Tail(hq)
      /\ UNCHANGED <<backend, log, outbox, stored, failed, crashes, boot>>
  BY DEF HubTake
<1>2. /\ hq \in Seq(Batches) /\ Len(hq) \in Nat \ {0} /\ DOMAIN hq = 1 .. Len(hq) /\ b = hq[1] /\ 1 \in DOMAIN hq
      /\ hq' \in Seq(Batches) /\ Len(hq') = Len(hq) - 1 /\ DOMAIN hq' = 1 .. Len(hq) - 1
      /\ \A i \in DOMAIN hq' : i + 1 \in DOMAIN hq /\ hq'[i] = hq[i + 1] /\ 1 < i + 1
      /\ \A i \in DOMAIN hq : i = 1 \/ (i - 1 \in DOMAIN hq' /\ hq'[i - 1] = hq[i])
  <2>1. hq \in Seq(Batches) BY DEF IInv, TypeOK
  <2> QED BY <1>1, <2>1
<1>3. /\ b \in Batches /\ b \in Seq(Events) /\ Len(b) \in Nat \ {0} /\ DOMAIN b = 1 .. Len(b)
      /\ ToSet(b) \subseteq Fresh /\ Rises(b)
  <2>1. b \in Batches BY <1>2
  <2>2. b \in Seq(Events) /\ Len(b) \in 1 .. BatchMax /\ DOMAIN b = 1 .. Len(b) BY <2>1, BatchIsSeq
  <2>3. Len(b) \in Nat \ {0} BY <2>2, SizesArePositive
  <2>4. ToSet(hq[1]) \subseteq Fresh /\ Rises(hq[1]) BY <1>2 DEF IInv, BatchesRise
  <2> QED BY <2>1, <2>2, <2>3, <2>4, <1>2
<1>4. /\ DOMAIN log = 1 .. Len(log) /\ Len(log) \in Nat /\ boot \in 0 .. Len(log)
      /\ Fresh \subseteq boot + 1 .. Len(log) /\ Shown \subseteq 1 .. Len(log) /\ c \in 0 .. Size - 1
      /\ DOMAIN Contents(ring) = 1 .. c /\ Size \in Nat \ {0}
  BY StateFacts, RingConstants
<1>5. /\ Sound(ring') /\ Count(ring') = d /\ d = IF all < Size THEN all ELSE Size - 1
      /\ \A j \in 1 .. d : Contents(ring')[j] = A(j + (all - d))
      /\ DOMAIN Contents(ring') = 1 .. d
  <2>1. Sound(ring) BY DEF IInv
  <2> QED BY <1>1, <1>3, <2>1, PutAllContents DEF Contents
<1>6. all \in Nat /\ d \in 0 .. all /\ \A j \in 1 .. d : j + (all - d) \in 1 .. all
  <2>1. c \in Nat /\ Len(b) \in Nat \ {0} /\ c < Size /\ Size \in Nat BY <1>3, <1>4
  <2>2. d = IF all < Size THEN all ELSE Size - 1 BY <1>5
  <2> HIDE DEF d, c, b
  <2>3. all \in Nat /\ d \in 0 .. all BY <2>1, <2>2
  <2> HIDE DEF all
  <2> QED BY <2>3
<1>7. /\ \A k \in 1 .. c : A(k) = Contents(ring)[k] /\ A(k) \in Shown
      /\ \A k \in c + 1 .. all : k - c \in 1 .. Len(b) /\ A(k) = b[k - c] /\ A(k) \in ToSet(b)
      /\ \A k \in 1 .. all : k \in 1 .. c \/ k \in c + 1 .. all
      /\ \A i \in 1 .. Len(b) : c + i \in c + 1 .. all /\ A(c + i) = b[i]
      /\ \A e \in Shown : \E k \in 1 .. c : A(k) = e
      /\ \A e \in ToSet(b) : \E k \in c + 1 .. all : A(k) = e
  <2>1. \A k \in 1 .. c : A(k) = Contents(ring)[k] /\ A(k) \in Shown
    BY <1>4 DEF Through, Shown, ToSet
  <2>2. \A k \in c + 1 .. all : k - c \in 1 .. Len(b) /\ A(k) = b[k - c] /\ A(k) \in ToSet(b)
    BY SMTT(30), <1>3, <1>4 DEF Through, ToSet
  <2>3. \A k \in 1 .. all : k \in 1 .. c \/ k \in c + 1 .. all BY <1>3, <1>4
  <2>4. \A i \in 1 .. Len(b) : c + i \in c + 1 .. all /\ A(c + i) = b[i]
    BY <1>3, <1>4 DEF Through
  <2>5. \A e \in Shown : \E k \in 1 .. c : A(k) = e BY <2>1, <1>4 DEF Shown, ToSet
  <2>6. \A e \in ToSet(b) : \E k \in c + 1 .. all : A(k) = e
    <3> TAKE e \in ToSet(b)
    <3>1. PICK i \in 1 .. Len(b) : e = b[i] BY <1>3 DEF ToSet
    <3>2. c + i \in c + 1 .. all /\ A(c + i) = e BY <2>4, <3>1
    <3> QED BY <3>2
  <2> QED BY <2>1, <2>2, <2>3, <2>4, <2>5, <2>6
<1>8. Shown' \subseteq Shown \cup ToSet(b)
  BY <1>5, <1>6, <1>7 DEF Shown, ToSet
<1> HIDE DEF A, b, c, d, all
<1>9. \A e \in Shown \cup ToSet(b) : (e > boot => Taken(e) \/ e \in ToSet(b)) /\ e \in 1 .. Len(log)
  <2>1. boot + 1 .. Len(log) \subseteq 1 .. Len(log) BY <1>4
  <2>2. \A e \in Shown : e > boot => Taken(e) BY DEF IInv, Known
  <2> QED BY <2>1, <2>2, <1>3, <1>4
<1>10. \A e : Taken(e) => Taken(e)'
  BY <1>1, <1>2 DEF Taken
<1>11. \A e : Taken(e)' => Taken(e) \/ e \in ToSet(b)
  BY <1>1, <1>2 DEF Taken
<1>12. \A e \in ToSet(b) : Taken(e)' /\ ~Taken(e) /\ e > boot /\ e \in Nat
  <2> TAKE e \in ToSet(b)
  <2>1. e > boot /\ e \in Nat /\ ~(e < e)
    <3>1. e \in boot + 1 .. Len(log) BY <1>3, <1>4
    <3> QED BY <3>1, <1>4
  <2>2. ASSUME NEW i \in DOMAIN hq', e \in ToSet(hq'[i]) PROVE FALSE
    <3>1. Precede(ToSet(hq[1]), ToSet(hq[i + 1])) BY <1>2 DEF IInv, QueuesRise
    <3> QED BY <3>1, <2>1, <2>2, <1>2 DEF Precede
  <2>3. ASSUME NEW q \in Publishers, e \in ToSet(outbox[q]) PROVE FALSE
    <3>1. Precede(ToSet(hq[1]), ToSet(outbox[q])) BY <1>2 DEF IInv, QueuesRise
    <3> QED BY <3>1, <2>1, <2>3, <1>2 DEF Precede
  <2>4. Taken(e)' BY <2>1, <2>2, <2>3, <1>1 DEF Taken
  <2>5. ~Taken(e)
    <3>1. e \in ToSet(hq[1]) /\ 1 \in DOMAIN hq BY <1>2
    <3>2. ASSUME Taken(e) PROVE FALSE
      <4>1. \A i \in DOMAIN hq : e \notin ToSet(hq[i]) BY <3>2 DEF Taken
      <4> QED BY <3>1, <4>1
    <3> QED BY <3>2
  <2> QED BY <2>1, <2>4, <2>5
<1>13. TakenSoFar' \subseteq TakenSoFar \cup ToSet(b)
  BY <1>1, <1>11 DEF TakenSoFar
<1>14. TypeOK'
  <2>1. storing' \in Batches \cup {<<>>} BY <1>1, <1>3 DEF ToPersist
  <2>2. Len(hq') <= ChanCap BY <1>2, SizesArePositive DEF IInv, TypeOK
  <2> QED BY <2>1, <2>2, <1>1, <1>2, <1>5 DEF IInv, TypeOK, Sound
<1>15. Known' /\ LossWindow'
  <2>1. ToSet(storing') \subseteq DOMAIN log 
    <3>1. ToSet(b) \subseteq DOMAIN log BY <1>4, <1>9
    <3>2. ToSet(<<>>) = {} BY DEF ToSet
    <3>3. storing' = b \/ storing' = <<>> BY <1>1 DEF ToPersist
    <3> QED BY <3>1, <3>2, <3>3
  <2>2. Shown' \subseteq DOMAIN log' /\ \A e \in Shown' : e > boot' => Taken(e)'
    BY <1>1, <1>4, <1>8, <1>9, <1>10, <1>12
  <2>3. backend # "none" => ToSet(storing') = ToSet(b) BY <1>1 DEF ToPersist
  <2>4. ToSet(storing) = {} BY <1>1 DEF ToSet
  <2>5. LossWindow' BY <1>1, <1>8, <2>3, <2>4 DEF IInv, LossWindow
  <2> QED BY <1>1, <2>1, <2>2, <2>5 DEF Known
<1>16. Fresh' = Fresh /\ Own' = Own BY <1>1 DEF Fresh, Own
<1>17. BatchesRise'
  BY <1>1, <1>2, <1>16 DEF IInv, BatchesRise
<1>18. QueuesRise'
  <2> DEFINE Older(S, T) == \A e \in S, f \in T : e > boot /\ log[e].by = log[f].by => e < f
  <2>1. \A S, T : Precede(S, T) <=> Older(S, T) BY DEF Precede
  <2>2. ASSUME NEW T, Older(TakenSoFar, T), Older(ToSet(b), T) PROVE Older(TakenSoFar', T)
    BY <2>2, <1>13
  <2> HIDE DEF Older
  <2>3. \A i \in DOMAIN hq' : Older(TakenSoFar', ToSet(hq'[i]))
    BY <1>2, <2>1, <2>2 DEF IInv, QueuesRise
  <2>4. \A q \in Publishers : Older(TakenSoFar', ToSet(outbox[q]))
    BY <1>2, <2>1, <2>2 DEF IInv, QueuesRise
  <2>5. ASSUME NEW i \in DOMAIN hq', NEW j \in DOMAIN hq', i < j PROVE Older(ToSet(hq'[i]), ToSet(hq'[j]))
    <3>1. i + 1 < j + 1 BY <2>5, <1>2
    <3> QED BY <3>1, <1>2, <2>1 DEF IInv, QueuesRise
  <2>6. \A i \in DOMAIN hq', q \in Publishers : Older(ToSet(hq'[i]), ToSet(outbox[q]))
    BY <1>2, <2>1 DEF IInv, QueuesRise
  <2>7. \A i \in DOMAIN hq' : Precede(TakenSoFar, ToSet(hq[i]))'
    BY <2>3, <1>1 DEF Precede, Older
  <2>8. \A q \in Publishers : Precede(TakenSoFar, ToSet(outbox[q]))'
    BY <2>4, <1>1 DEF Precede, Older
  <2>9. \A i, j \in DOMAIN hq' : i < j => Precede(ToSet(hq[i]), ToSet(hq[j]))'
    BY <2>5, <1>1 DEF Precede, Older
  <2>10. \A i \in DOMAIN hq', q \in Publishers : Precede(ToSet(hq[i]), ToSet(outbox[q]))'
    BY <2>6, <1>1 DEF Precede, Older
  <2> QED BY <2>7, <2>8, <2>9, <2>10 DEF QueuesRise
<1>19. Precede(TakenSoFar, ToSet(b)) BY <1>2 DEF IInv, QueuesRise
<1>20. ASSUME NEW i \in 1 .. all, NEW j \in 1 .. all, i < j
       PROVE  /\ A(i) # A(j)
              /\ A(i) > boot => A(j) > boot
              /\ A(i) > boot /\ log[A(i)].by = log[A(j)].by => A(i) < A(j)
  <2>1. CASE i \in 1 .. c /\ j \in 1 .. c
    <3> DEFINE old == Contents(ring)
    <3>1. A(i) = old[i] /\ A(j) = old[j] /\ i \in DOMAIN old /\ j \in DOMAIN old
      BY <2>1, <1>4, <1>7
    <3>2. Ordered(old) BY DEF IInv
    <3> HIDE DEF old
    <3> QED BY <3>1, <3>2, <1>20 DEF Ordered
  <2>2. CASE i \in 1 .. c /\ j \in c + 1 .. all
    <3>1. A(i) \in Shown /\ A(j) \in ToSet(b) /\ A(j) > boot BY <2>2, <1>7, <1>12
    <3>2. A(i) > boot => A(i) \in TakenSoFar BY <3>1, <1>4 DEF IInv, Known, TakenSoFar
    <3>3. A(i) # A(j) BY <3>1, <1>12 DEF IInv, Known
    <3> QED BY <3>1, <3>2, <3>3, <1>19 DEF Precede
  <2>3. CASE i \in c + 1 .. all /\ j \in c + 1 .. all
    <3>1. i - c < j - c BY <1>20, <2>3, <1>4, <1>6
    <3>2. A(i) \in ToSet(b) /\ A(j) \in ToSet(b) /\ A(i) < A(j)
      BY <2>3, <3>1, <1>3, <1>7 DEF Rises
    <3>3. A(i) # A(j) /\ A(i) > boot /\ A(j) > boot BY <3>2, <1>12
    <3> QED BY <3>2, <3>3
  <2>4. CASE i \in c + 1 .. all /\ j \in 1 .. c
    BY <2>4, <1>4, <1>6, <1>20
  <2> QED BY <2>1, <2>2, <2>3, <2>4, <1>7
<1>21. Ordered(Contents(ring))'
  <2> DEFINE new == Contents(ring')
  <2>1. ASSUME NEW i \in 1 .. d, NEW j \in 1 .. d, i < j
        PROVE  /\ new[i] # new[j]
               /\ new[i] > boot => new[j] > boot
               /\ new[i] > boot /\ log[new[i]].by = log[new[j]].by => new[i] < new[j]
    <3> HIDE DEF new
    <3>1. i + (all - d) < j + (all - d) BY <2>1, <1>6
    <3>2. new[i] = A(i + (all - d)) /\ new[j] = A(j + (all - d)) BY <1>5 DEF new
    <3> QED BY <3>1, <3>2, <1>6, <1>20
  <2>2. DOMAIN new = 1 .. d BY <1>5
  <2> HIDE DEF new
  <2>3. \A i, j \in DOMAIN new : i < j =>
             /\ new[i] # new[j]
             /\ new[i] > boot' => new[j] > boot'
             /\ new[i] > boot' /\ log'[new[i]].by = log'[new[j]].by => new[i] < new[j]
    BY <2>1, <2>2, <1>1
  <2> QED BY <2>3 DEF Ordered, new
<1>22. NoGap'
  <2> SUFFICES ASSUME NEW e \in Shown', NEW f \in Own, e > boot, e < f, log[e].by = log[f].by, Taken(f)'
               PROVE  f \in Shown'
    BY <1>1, <1>16 DEF NoGap
  <2>1. PICK j \in 1 .. d : e = A(j + (all - d)) BY <1>5 DEF Shown, ToSet
  <2> DEFINE k == j + (all - d)
  <2>2. k \in 1 .. all /\ e = A(k) BY <2>1, <1>6
  <2>3. f \in Nat /\ e \in Nat /\ ~(f < e)
    BY <1>4, <1>8, <1>9 DEF Own
  <2>4. f \in Shown \cup ToSet(b)
    <3>1. CASE f \in ToSet(b) BY <3>1
    <3>2. CASE f \notin ToSet(b)
      <4>1. Taken(f) /\ f \in TakenSoFar BY <3>2, <1>11 DEF Own, TakenSoFar
      <4>2. e \notin ToSet(b)
        <5> SUFFICES ASSUME e \in ToSet(b) PROVE FALSE OBVIOUS
        <5>1. f > boot BY <4>1 DEF Taken
        <5> QED BY <5>1, <4>1, <2>3, <1>19 DEF Precede
      <4>3. e \in Shown BY <4>2, <1>8
      <4> QED BY <4>1, <4>3 DEF IInv, NoGap
    <3> QED BY <3>1, <3>2
  <2>5. PICK m \in 1 .. all : A(m) = f
    <3>1. CASE f \in Shown
      <4>1. PICK m \in 1 .. c : A(m) = f BY <3>1, <1>7
      <4>2. m \in 1 .. all BY <1>3, <1>4 DEF all
      <4> QED BY <4>1, <4>2
    <3>2. CASE f \in ToSet(b)
      <4>1. PICK m \in c + 1 .. all : A(m) = f BY <3>2, <1>7
      <4>2. m \in 1 .. all BY <1>4, <1>6
      <4> QED BY <4>1, <4>2
    <3> QED BY <2>4, <3>1, <3>2
  <2>6. f > boot BY <1>9, <1>12, <2>4, <1>11 DEF Taken
  <2> HIDE DEF k
  <2>7. ~(m < k)
    <3> SUFFICES ASSUME m < k PROVE FALSE OBVIOUS
    <3>1. A(m) < A(k) BY <1>20, <2>2, <2>5, <2>6
    <3> QED BY <3>1, <2>2, <2>3, <2>5
  <2>8. m - (all - d) \in 1 .. d /\ (m - (all - d)) + (all - d) = m
    BY <2>2, <2>5, <2>7, <1>6 DEF k
  <2>9. Contents(ring')[m - (all - d)] = f BY <2>5, <2>8, <1>5
  <2> QED BY <2>8, <2>9, <1>5 DEF Shown, ToSet
<1> QED BY <1>5, <1>14, <1>15, <1>17, <1>18, <1>21, <1>22 DEF IInv

\* StoreEvents returns: the batch is in the table, or its loss is logged.
LEMMA HubStoreStep ==
  ASSUME IInv, HubStore
  PROVE  IInv'
<1>1. /\ storing' = <<>> /\ stored \subseteq stored' /\ failed \subseteq failed'
      /\ stored' \cup failed' = stored \cup failed \cup ToSet(storing)
      /\ UNCHANGED <<backend, log, outbox, hq, ring, crashes, boot>>
  BY DEF HubStore
<1>2. UNCHANGED <<Contents(ring), Shown, Fresh, Own>> /\ (Sound(ring))'
  BY <1>1 DEF IInv, Contents, Count, At, Shown, Sound, Fresh, Own
<1>3. TypeOK'
  <2>1. stored' \subseteq DOMAIN log /\ failed' \subseteq DOMAIN log
    BY <1>1 DEF IInv, TypeOK, Known
  <2> QED BY <1>1, <2>1 DEF IInv, TypeOK
<1>4. ToSet(storing') = {} BY <1>1 DEF ToSet
<1>5. Known' BY <1>1, <1>2, <1>4 DEF IInv, Known, Taken
<1>6. LossWindow' BY <1>1, <1>2 DEF IInv, LossWindow
<1>7. (BatchesRise /\ QueuesRise /\ NoGap)'
  BY <1>1, <1>2 DEF IInv, BatchesRise, QueuesRise, NoGap, Precede, Taken, TakenSoFar
<1>8. Ordered(Contents(ring))'
  <2> DEFINE c == Contents(ring)
  <2> HIDE DEF c
  <2>1. Ordered(c)' BY <1>1, <1>2 DEF IInv, Ordered, c
  <2> QED BY <2>1 DEF c
<1> QED BY <1>2, <1>3, <1>5, <1>6, <1>7, <1>8 DEF IInv

\* What GetEventHistory returns: events that it lists, none of them twice, and all of them
\* when they are fewer than it is asked for.
LEMMA LoadsListed ==
  ASSUME NEW S, IsFiniteSet(S), NEW s \in Loads(S)
  PROVE  /\ s \in Seq(Listed(S)) /\ Len(s) <= Size
         /\ \A i, j \in 1 .. Len(s) : i # j => s[i] # s[j]
         /\ Cardinality(Listed(S)) < Size =>
              Len(s) = Cardinality(Listed(S)) /\ Listed(S) \subseteq ToSet(s)
<1> DEFINE L == Listed(S)
           n == Cardinality(L)
<1>1. IsFiniteSet(L) /\ n \in Nat
  <2>1. L \subseteq S BY DEF Listed
  <2>2. IsFiniteSet(L) BY <2>1, FS_Subset
  <2> QED BY <2>2, FS_CardinalityType
<1> HIDE DEF L, n
<1>2. PICK t \in [1 .. n -> L] : /\ \A i, j \in 1 .. n : i # j => t[i] # t[j]
                                 /\ s = IF Len(t) > Size THEN SubSeq(t, 1, Size) ELSE t
  BY DEF Loads, SetToSeqs, L, n
<1>3. t \in Seq(L) /\ Len(t) = n BY <1>1, <1>2
<1>4. CASE n > Size
  <2>1. s = SubSeq(t, 1, Size) BY <1>2, <1>3, <1>4
  <2>2. s \in Seq(L) /\ Len(s) = Size /\ \A i \in 1 .. Len(s) : i \in 1 .. n /\ s[i] = t[i]
    BY <2>1, <1>1, <1>3, <1>4, RingConstants
  <2> QED BY <2>2, <1>1, <1>2, <1>4, RingConstants DEF L, n
<1>5. CASE ~(n > Size)
  <2>1. s = t BY <1>2, <1>3, <1>5
  <2>2. L \subseteq ToSet(t)
    <3>1. t \in Injection(1 .. n, L) BY <1>2 DEF Injection, IsInjective
    <3>2. Cardinality(1 .. n) = n /\ IsFiniteSet(1 .. n) BY <1>1, FS_Interval
    <3>3. t \in Surjection(1 .. n, L) BY <3>1, <3>2, <1>1, FS_Injection DEF n
    <3> QED BY <3>3 DEF Surjection, ToSet
  <2> QED BY <2>1, <2>2, <1>1, <1>2, <1>3, <1>5, RingConstants DEF L, n
<1> QED BY <1>1, <1>4, <1>5, RingConstants

\* The history of a new hub is the end of what it loads, in that order.
LEMMA ReloadedContents ==
  ASSUME NEW s \in Seq(Events)
  PROVE  LET n == Count(Reloaded(s)) IN
         /\ Sound(Reloaded(s))
         /\ n = IF Len(s) < Size THEN Len(s) ELSE Size - 1
         /\ n \in 0 .. Len(s) /\ DOMAIN Contents(Reloaded(s)) = 1 .. n
         /\ \A j \in 1 .. n : /\ j + (Len(s) - n) \in 1 .. Len(s)
                              /\ Contents(Reloaded(s))[j] = s[j + (Len(s) - n)]
<1> DEFINE r == EmptyRing
           q == PutAll(r, s)
           n == Count(q)
<1>1. Sound(r) /\ Count(r) = 0
  <2>1. Sound(r) /\ Contents(r) = <<>> BY EmptyIsSound
  <2> QED BY <2>1, SoundContents
<1>2. q = Reloaded(s) BY DEF Reloaded
<1> HIDE DEF r
<1>3. /\ Sound(q) /\ n = IF 0 + Len(s) < Size THEN 0 + Len(s) ELSE Size - 1
      /\ \A j \in 1 .. n : Contents(q)[j] = Through(r, s, j + ((0 + Len(s)) - n))
  BY <1>1, PutAllContents
<1>4. DOMAIN Contents(q) = 1 .. n BY DEF Contents
<1> HIDE DEF q, n
<1>5. Len(s) \in Nat /\ Size \in Nat \ {0} BY RingConstants
<1>6. n = IF Len(s) < Size THEN Len(s) ELSE Size - 1 BY <1>3, <1>5
<1>7. n \in 0 .. Len(s) BY <1>5, <1>6
<1>8. ASSUME NEW j \in 1 .. n
      PROVE  j + (Len(s) - n) \in 1 .. Len(s) /\ Contents(q)[j] = s[j + (Len(s) - n)]
  <2>1. j + (Len(s) - n) \in 1 .. Len(s) /\ j + ((0 + Len(s)) - n) = j + (Len(s) - n) BY <1>5, <1>7
  <2>2. Contents(q)[j] = Through(r, s, j + (Len(s) - n)) BY <1>3, <2>1
  <2>3. ~(j + (Len(s) - n) <= 0) /\ (j + (Len(s) - n)) - 0 = j + (Len(s) - n) BY <2>1
  <2> QED BY <2>1, <2>2, <2>3, <1>1 DEF Through
<1> QED BY <1>2, <1>3, <1>4, <1>6, <1>7, <1>8 DEF n

\* What a restarted process shows.
LEMMA RestartShows ==
  ASSUME IInv, Restart
  PROVE  /\ stored' \subseteq 1 .. Len(log)
         /\ Sound(ring')
         /\ \A i, j \in DOMAIN Contents(ring') :
              i # j => Contents(ring')[i] # Contents(ring')[j]
         /\ Shown' \subseteq stored'
         /\ Shown' # {} /\ Cardinality(Listed(stored')) < Size => Listed(stored') \subseteq Shown'
<1>1. stored' \subseteq 1 .. Len(log)
  BY StateFacts DEF Restart, IInv, TypeOK, Known
<1>2. IsFiniteSet(stored') /\ Listed(stored') \subseteq stored' /\ stored' \subseteq Events
  <2>1. Len(log) \in Nat /\ 1 .. Len(log) \subseteq Events BY StateFacts, RingConstants DEF Events
  <2>2. IsFiniteSet(1 .. Len(log)) BY <2>1, FS_Interval
  <2> QED BY <1>1, <2>1, <2>2, FS_Subset DEF Listed
<1>3. CASE ring' = EmptyRing
  <2>1. Contents(ring') = <<>> /\ Sound(ring') BY <1>3, EmptyIsSound
  <2>2. Shown' = {} BY <2>1 DEF Shown, ToSet
  <2> QED BY <1>1, <2>1, <2>2
<1>4. ASSUME NEW s \in Loads(stored'), ring' = Reloaded(s)
      PROVE  /\ Sound(ring')
             /\ \A i, j \in DOMAIN Contents(ring') :
                  i # j => Contents(ring')[i] # Contents(ring')[j]
             /\ Shown' \subseteq stored'
             /\ Cardinality(Listed(stored')) < Size => Listed(stored') \subseteq Shown'
  <2> DEFINE L == Listed(stored')
             new == Contents(ring')
             n == Count(ring')
             off == Len(s) - n
  <2>1. /\ s \in Seq(L) /\ Len(s) <= Size
        /\ \A i, j \in 1 .. Len(s) : i # j => s[i] # s[j]
        /\ Cardinality(L) < Size => Len(s) = Cardinality(L) /\ L \subseteq ToSet(s)
    BY <1>2, LoadsListed
  <2> HIDE DEF L
  <2>2. L \subseteq stored' BY <1>2 DEF L
  <2>3. s \in Seq(Events) /\ Len(s) \in Nat /\ DOMAIN s = 1 .. Len(s)
        /\ \A i \in 1 .. Len(s) : s[i] \in L
    BY <2>1, <2>2, <1>2
  <2>4. /\ Sound(ring') /\ n = IF Len(s) < Size THEN Len(s) ELSE Size - 1
        /\ n \in 0 .. Len(s) /\ DOMAIN new = 1 .. n
        /\ \A j \in 1 .. n : j + off \in 1 .. Len(s) /\ new[j] = s[j + off]
    BY <1>4, <2>3, ReloadedContents
  <2> HIDE DEF n, new
  <2>5. \A i, j \in 1 .. n : i # j => i + off # j + off 
    <3>1. Len(s) \in Nat /\ n \in 0 .. Len(s) BY <2>3, <2>4
    <3>2. off \in Int BY <3>1
    <3> HIDE DEF off
    <3> QED BY <3>2
  <2>6. \A i, j \in DOMAIN new : i # j => new[i] # new[j] BY SMTT(30), <2>1, <2>4, <2>5
  <2>7. \A e : e \in Shown' <=> \E j \in 1 .. n : e = new[j]
    BY <2>4 DEF Shown, ToSet, new
  <2>8. Shown' \subseteq stored'
    <3>1. \A j \in 1 .. n : new[j] \in L BY <2>3, <2>4
    <3> QED BY <3>1, <2>2, <2>7
  <2>9. ASSUME Cardinality(L) < Size PROVE L \subseteq Shown'
    <3>1. n = Len(s) /\ \A j \in 1 .. Len(s) : j + off = j BY <2>1, <2>3, <2>4, <2>9
    <3>2. \A j \in 1 .. Len(s) : s[j] \in Shown' BY <3>1, <2>4, <2>7
    <3> QED BY <3>2, <2>1, <2>3, <2>9 DEF ToSet
  <2> QED BY <2>4, <2>6, <2>8, <2>9 DEF L, new
<1> QED BY <1>1, <1>3, <1>4 DEF Restart

\* A restart: nothing waits, and everything that is shown was loaded.
LEMMA RestartStep ==
  ASSUME IInv, Restart
  PROVE  IInv'
<1>1. /\ crashes < MaxCrashes /\ crashes' = crashes + 1 /\ boot' = Len(log)
      /\ outbox' = [p \in Publishers |-> <<>>] /\ hq' = <<>> /\ storing' = <<>>
      /\ UNCHANGED <<backend, log, failed>>
  BY DEF Restart
<1>2. /\ stored' \subseteq 1 .. Len(log) /\ Sound(ring')
      /\ \A i, j \in DOMAIN Contents(ring') :
           i # j => Contents(ring')[i] # Contents(ring')[j]
      /\ Shown' \subseteq stored'
  BY RestartShows
<1>3. DOMAIN log = 1 .. Len(log) /\ Len(log) \in Nat BY StateFacts
<1>4. ToSet(<<>>) = {} /\ Rises(<<>>) /\ DOMAIN <<>> = {} BY DEF ToSet, Rises
<1>5. \A e \in Shown' : e \in 1 .. Len(log) /\ ~(e > boot') BY <1>1, <1>2, <1>3
<1>6. TypeOK'
  <2>1. crashes' \in 0 .. MaxCrashes BY <1>1, LimitsAreNat DEF IInv, TypeOK
  <2>2. boot' \in 0 .. Len(log) /\ ring' \in Rings BY <1>1, <1>2, <1>3 DEF Sound
  <2>3. hq' \in Seq(Batches) /\ Len(hq') <= ChanCap BY <1>1, SizesArePositive
  <2> QED BY <1>1, <1>2, <1>3, <2>1, <2>2, <2>3 DEF IInv, TypeOK
<1>7. Known' /\ LossWindow' /\ NoGap'
  BY <1>1, <1>2, <1>3, <1>4, <1>5 DEF Known, LossWindow, NoGap
<1>8. BatchesRise' BY <1>1, <1>4 DEF BatchesRise
<1>9. QueuesRise' BY <1>1, <1>4 DEF QueuesRise, Precede
<1>10. Ordered(Contents(ring))'
  <2> DEFINE new == Contents(ring')
  <2>1. \A i \in DOMAIN new : new[i] \in Shown' BY DEF Shown, ToSet
  <2>2. \A i, j \in DOMAIN new : i < j => i # j
    <3>1. DOMAIN new = 1 .. Count(ring') BY DEF Contents
    <3>2. Count(ring') \in Nat BY <1>2, SoundContents
    <3> QED BY <3>1, <3>2
  <2>3. \A i, j \in DOMAIN new : i # j => new[i] # new[j] BY <1>2
  <2> HIDE DEF new
  <2>4. \A i, j \in DOMAIN new : i < j =>
             /\ new[i] # new[j]
             /\ new[i] > boot' => new[j] > boot'
             /\ new[i] > boot' /\ log'[new[i]].by = log'[new[j]].by => new[i] < new[j]
    BY <2>1, <2>2, <2>3, <1>5
  <2> QED BY <2>4 DEF Ordered, new
<1>11. Sound(ring)' BY <1>2 DEF Sound
<1> QED BY <1>6, <1>7, <1>8, <1>9, <1>10, <1>11 DEF IInv

\* A second is a number.
LEMMA SecondsAreNat ==
  ASSUME IInv, NEW s \in Seconds
  PROVE  s \in Nat
<1> DEFINE Made == [by : Publishers \cup {Elsewhere}, sec : Nat]
<1>1. log \in Seq(Made) BY StateFacts
<1> HIDE DEF Made
<1>2. log # <<>> => Last(log).sec \in Nat
  <2>1. log # <<>> => Len(log) \in 1 .. Len(log) BY <1>1
  <2>2. ASSUME NEW i \in 1 .. Len(log) PROVE log[i].sec \in Nat
    <3>1. log[i] \in Made BY <1>1
    <3> QED BY <3>1 DEF Made
  <2> QED BY <2>1, <2>2 DEF Last
<1> QED BY <1>2 DEF Seconds

\* A step in which nothing happens.
LEMMA NothingStep ==
  ASSUME IInv, UNCHANGED vars
  PROVE  IInv'
<1> USE DEF vars
<1>1. UNCHANGED <<Contents(ring), Shown, Fresh, Own>> /\ (Sound(ring))'
  BY DEF IInv, Contents, Count, At, Shown, Sound, Fresh, Own
<1>2. (TypeOK /\ LossWindow)' BY <1>1 DEF IInv, TypeOK, LossWindow
<1>3. (Known /\ BatchesRise /\ QueuesRise /\ NoGap)'
  BY <1>1 DEF IInv, Known, BatchesRise, QueuesRise, NoGap, Precede, Taken, TakenSoFar
<1>4. Ordered(Contents(ring))'
  <2> DEFINE c == Contents(ring)
  <2> HIDE DEF c
  <2>1. Ordered(c)' BY <1>1 DEF IInv, Ordered, c
  <2> QED BY <2>1 DEF c
<1> QED BY <1>1, <1>2, <1>3, <1>4 DEF IInv

\* Each action keeps the invariant.
LEMMA StepIInv == IInv /\ [Next]_vars => IInv'
<1> SUFFICES ASSUME IInv, [Next]_vars PROVE IInv' OBVIOUS
<1>1. ASSUME NEW p \in Publishers, Create(p) PROVE IInv'
  <2>1. PICK n \in 1 .. BatchMax, s \in Seconds :
          /\ Len(log) + n <= MaxEvents
          /\ log' = log \o [i \in 1 .. n |-> [by |-> p, sec |-> s]]
          /\ outbox' = [outbox EXCEPT ![p] = [i \in 1 .. n |-> Len(log) + i]]
    BY <1>1 DEF Create
  <2>2. s \in Nat BY SecondsAreNat
  <2> QED BY <1>1, <2>1, <2>2, CreateStep DEF Create
<1>2. ASSUME NEW p \in Publishers, Send(p) PROVE IInv' BY <1>2, SendStep
<1>3. CASE StoreElsewhere
  <2>1. PICK s \in Seconds : log' = Append(log, [by |-> Elsewhere, sec |-> s])
    BY <1>3 DEF StoreElsewhere
  <2>2. s \in Nat BY SecondsAreNat
  <2> QED BY <1>3, <2>1, <2>2, StoreElsewhereStep DEF StoreElsewhere
<1>4. CASE HubTake BY <1>4, HubTakeStep
<1>5. CASE HubStore BY <1>5, HubStoreStep
<1>6. CASE Restart BY <1>6, RestartStep
<1>7. CASE UNCHANGED vars BY <1>7, NothingStep
<1> QED BY <1>1, <1>2, <1>3, <1>4, <1>5, <1>6, <1>7 DEF Next

-----------------------------------------------------------------------------
(* The results. *)

\* The bounds of the channels, the ring and the tables: no batch overruns the history
\* channel, and what is in the event table was made.
THEOREM HubHistoryTyped == Spec => []TypeOK
<1>1. IInv => TypeOK BY DEF IInv
<1> QED BY <1>1, InitIInv, StepIInv, PTL DEF Spec

\* Whoever reads the history sees only events that are stored, are being stored by the one
\* StoreEvents that runs, or whose error was logged: a crash loses no other event of it.
THEOREM LossIsBounded == Spec => []LossWindow
<1>1. IInv => LossWindow BY DEF IInv
<1> QED BY <1>1, InitIInv, StepIInv, PTL DEF Spec

\* GetHistory returns no event twice: what NewHub loads and what Hub.Run appends are apart.
THEOREM NoneTwice == Spec => []NoDuplicates
<1>1. IInv => NoDuplicates
  <2> SUFFICES ASSUME IInv PROVE NoDuplicates OBVIOUS
  <2> DEFINE c == Contents(ring)
  <2>1. DOMAIN c = 1 .. Count(ring) BY DEF Contents
  <2>2. Count(ring) \in Nat BY SoundContents DEF IInv
  <2>3. Ordered(c) BY DEF IInv
  <2> HIDE DEF c
  <2>4. \A i, j \in DOMAIN c : i # j => i < j \/ j < i BY <2>1, <2>2
  <2> QED BY <2>3, <2>4 DEF Ordered, NoDuplicates, IsInjective, c
<1> QED BY <1>1, InitIInv, StepIInv, PTL DEF Spec

\* A publisher's events are in the history in the order in which it made them, and none is
\* missing behind an older one: through outbox, channel and ring nothing overtakes.
THEOREM InPublishersOrder == Spec => []PublisherOrder
<1>1. IInv => PublisherOrder
  <2> SUFFICES ASSUME IInv, NEW e \in Shown, NEW f \in Own,
                      e > boot, e < f, log[e].by = log[f].by, Taken(f)
               PROVE  f \in Shown /\ Index(e) < Index(f)
    BY DEF PublisherOrder
  <2> DEFINE c == Contents(ring)
             n == Len(c)
  <2>1. f \in Shown BY DEF IInv, NoGap
  <2>2. DOMAIN c = 1 .. n /\ n \in Nat BY StateFacts
  <2>3. Ordered(c) BY DEF IInv
  <2>4. ToSet(c) = Shown BY DEF Shown
  <2> HIDE DEF c
  <2>5. (\E i \in 1 .. n : c[i] = e) /\ (\E i \in 1 .. n : c[i] = f)
    BY <2>1, <2>2, <2>4 DEF ToSet
  <2> DEFINE k == CHOOSE i \in 1 .. n : c[i] = e
             m == CHOOSE i \in 1 .. n : c[i] = f
  <2>6. k \in 1 .. n /\ c[k] = e /\ m \in 1 .. n /\ c[m] = f BY <2>5
  <2>7. Index(e) = k /\ Index(f) = m BY DEF Index, c
  <2> HIDE DEF k, m
  <2>8. f > boot /\ e \in Nat /\ f \in Nat BY <2>1, StateFacts DEF Taken
  <2>9. k < m
    <3>1. k # m BY <2>6, <2>8
    <3>2. ~(m < k)
      <4> SUFFICES ASSUME m < k PROVE FALSE OBVIOUS
      <4>1. f < e BY <2>2, <2>3, <2>6, <2>8 DEF Ordered
      <4> QED BY <4>1, <2>8
    <3> QED BY <3>1, <3>2, <2>2, <2>6
  <2> QED BY <2>1, <2>7, <2>9
<1> QED BY <1>1, InitIInv, StepIInv, PTL DEF Spec

\* Whatever was stored when the process ended, the restarted one shows nothing else, and all
\* of it that is the room's unless the ring is too short or nothing could be loaded.
THEOREM RestartsShowStored == Spec => RestartShowsStored
<1> DEFINE A == crashes' # crashes /\ backend # "none" =>
                  /\ Shown' \subseteq stored'
                  /\ Shown' # {} /\ Cardinality(Listed(stored')) < Size => Own \cap stored' \subseteq Shown'
<1>1. IInv /\ [Next]_vars => [A]_vars
  <2> SUFFICES ASSUME IInv, Next, crashes' # crashes PROVE A OBVIOUS
  <2>1. Restart BY DEF Next, Create, Send, StoreElsewhere, HubTake, HubStore
  <2>2. Own \cap stored' \subseteq Listed(stored') BY DEF Listed
  <2> QED BY <2>1, <2>2, RestartShows
<1> QED BY <1>1, InitIInv, StepIInv, PTL DEF Spec, RestartShowsStored

=============================================================================
