------------------------- MODULE EventStreamProofs -------------------------
(***************************************************************************)
(* Theorems about EventStream, for any number of events, any cap of the    *)
(* log and any number of lost connections, restarts and frames.            *)
(***************************************************************************)
EXTENDS EventStream, FiniteSetTheorems, SequenceTheorems, WellFoundedInduction, TLAPS

----------------------------------------------------------------------------
\* Least and greatest events.

\* One to which no other has a smaller set.
Smallest(S, f) == CHOOSE s \in S : \A r \in S : f[r] \subseteq f[s] => f[r] = f[s]

LEMMA SmallestOf ==
    ASSUME NEW S, IsFiniteSet(S), S # {}, NEW f \in [S -> SUBSET S]
    PROVE  /\ Smallest(S, f) \in S
           /\ \A r \in S : f[r] \subseteq f[Smallest(S, f)] => f[r] = f[Smallest(S, f)]
<1> DEFINE C == {f[s] : s \in S}
<1>1. C \subseteq FiniteSubsetsOf(S) /\ C # {}
  BY FS_Subset DEF FiniteSubsetsOf
<1>2. PICK x \in C : \A y \in C : ~(<<y, x>> \in StrictSubsetOrdering(S))
  <2> HIDE DEF C
  <2> QED BY <1>1, FS_StrictSubsetOrderingWellFounded, WFMin
<1>3. PICK s \in S : x = f[s]
  BY <1>2
<1>4. ASSUME NEW r \in S, f[r] \subseteq f[s] PROVE f[r] = f[s]
  BY <1>2, <1>3, <1>4 DEF StrictSubsetOrdering
<1> QED BY <1>4 DEF Smallest

LEMMA LowestIn ==
    ASSUME NEW n \in Nat, NEW S \in SUBSET (1..n), S # {}
    PROVE  Lowest(S) \in S /\ \A r \in S : Lowest(S) <= r
<1> DEFINE f == [s \in S |-> {r \in S : r < s}]
<1>1. IsFiniteSet(S)
  <2>1. IsFiniteSet(1..n)
    BY FS_Interval
  <2> QED BY <2>1, FS_Subset
<1>2. f \in [S -> SUBSET S] /\ \A s \in S : f[s] = {r \in S : r < s}
  OBVIOUS
<1> HIDE DEF f
<1>3. PICK s \in S : \A r \in S : f[r] \subseteq f[s] => f[r] = f[s]
  <2>1. /\ Smallest(S, f) \in S
        /\ \A r \in S : f[r] \subseteq f[Smallest(S, f)] => f[r] = f[Smallest(S, f)]
    BY <1>1, <1>2, SmallestOf
  <2> QED BY <2>1
<1>4. ASSUME NEW r \in S, r < s PROVE FALSE
  <2>1. r \in f[s] /\ r \notin f[r]
    BY <1>2, <1>4
  <2>2. ASSUME NEW q \in f[r] PROVE q \in f[s]
    <3>1. q \in S /\ q < r /\ q \in 1..n /\ r \in 1..n /\ s \in 1..n
      BY <1>2
    <3>2. q < s
      BY <1>4, <3>1
    <3> QED BY <1>2, <3>1, <3>2
  <2>3. f[r] \subseteq f[s]
    BY <2>2
  <2> QED BY <1>3, <2>1, <2>3
<1>5. \A r \in S : s <= r
  BY <1>4
<1> QED BY <1>5 DEF Lowest

LEMMA HighestIn ==
    ASSUME NEW n \in Nat, NEW S \in SUBSET (1..n), S # {}
    PROVE  Highest(S) \in S /\ \A r \in S : r <= Highest(S)
<1> DEFINE f == [s \in S |-> {r \in S : r > s}]
<1>1. IsFiniteSet(S)
  <2>1. IsFiniteSet(1..n)
    BY FS_Interval
  <2> QED BY <2>1, FS_Subset
<1>2. f \in [S -> SUBSET S] /\ \A s \in S : f[s] = {r \in S : r > s}
  OBVIOUS
<1> HIDE DEF f
<1>3. PICK s \in S : \A r \in S : f[r] \subseteq f[s] => f[r] = f[s]
  <2>1. /\ Smallest(S, f) \in S
        /\ \A r \in S : f[r] \subseteq f[Smallest(S, f)] => f[r] = f[Smallest(S, f)]
    BY <1>1, <1>2, SmallestOf
  <2> QED BY <2>1
<1>4. ASSUME NEW r \in S, r > s PROVE FALSE
  <2>1. r \in f[s] /\ r \notin f[r]
    BY <1>2, <1>4
  <2>2. ASSUME NEW q \in f[r] PROVE q \in f[s]
    <3>1. q \in S /\ q > r /\ q \in 1..n /\ r \in 1..n /\ s \in 1..n
      BY <1>2
    <3>2. q > s
      BY <1>4, <3>1
    <3> QED BY <1>2, <3>1, <3>2
  <2>3. f[r] \subseteq f[s]
    BY <2>2
  <2> QED BY <1>3, <2>1, <2>3
<1>5. \A r \in S : r <= s
  BY <1>4
<1> QED BY <1>5 DEF Highest

----------------------------------------------------------------------------
\* Types.

\* What a frame on its way holds: events that were logged, or the place where
\* the log started, below which it holds nothing since.
Frames ==
    {f \in [trim : 0..MaxEvents, run : SUBSET (1..MaxEvents)] :
        /\ f.run \subseteq 1..seq /\ (f.trim = 0 => f.run # {})
        /\ f.trim <= seq /\ \A s \in log : f.trim <= s}

\* The types of all but what is on its way.
Fields ==
    /\ seq \in 0..MaxEvents /\ log \subseteq 1..MaxEvents
    /\ unwritten \subseteq 1..MaxEvents /\ disk \subseteq 1..MaxEvents
    /\ stage \in {"idle", "attaching", "noticed", "replayed"}
    /\ from \in 1..MaxEvents + 1
    /\ stream \in {"none", "created", "streaming"} /\ seen \in 0..MaxEvents
    /\ stale \in BOOLEAN /\ up \in BOOLEAN
    /\ follows \in BOOLEAN /\ detached \in BOOLEAN /\ awaiting \in BOOLEAN
    /\ last \in 0..MaxEvents /\ shown \subseteq 1..MaxEvents
    /\ strayed \in {"no", "attach", "file"}
    /\ drops \in 0..MaxDrops /\ restarts \in 0..MaxRestarts

Plain == Fields /\ requests \in Seq(0..MaxEvents + 1)

Typed == Plain /\ log \subseteq 1..seq /\ frames \in Seq(Frames)

\* The file is written in the order of the events.
Ordered ==
    /\ disk \subseteq log /\ unwritten \subseteq log
    /\ \A d \in disk, u \in unwritten : d < u

IInv == Typed /\ Ordered

LEMMA TypedIsTypeOK == Typed => TypeOK
<1>1. Frames \subseteq [trim : 0..MaxEvents, run : SUBSET (1..MaxEvents)]
  BY DEF Frames
<1>2. ASSUME Typed
      PROVE  frames \in Seq([trim : 0..MaxEvents, run : SUBSET (1..MaxEvents)])
  BY <1>1, <1>2, SeqMonotonic DEF Typed
<1> QED BY <1>2 DEF Typed, Plain, Fields, TypeOK

LEMMA FramesStay == ASSUME UNCHANGED <<seq, log>> PROVE Frames' = Frames
BY DEF Frames

\* Frames stay what they are while events are added or a prefix is dropped.
LEMMA FramesGrow ==
    ASSUME Typed, seq' \in Nat, seq <= seq', \A s \in log' : s \in log \/ s = seq'
    PROVE  Seq(Frames) \subseteq Seq(Frames') /\ frames \in Seq(Frames')
<1>1. seq \in Nat
  BY DEF Typed, Plain, Fields
<1>2. ASSUME NEW f \in Frames PROVE f \in Frames'
  <2>1. f.run \subseteq 1..seq' /\ f.trim <= seq'
    BY <1>1, <1>2 DEF Frames
  <2>2. ASSUME NEW s \in log' PROVE f.trim <= s
    BY <2>1, <1>2 DEF Frames
  <2> QED BY <1>2, <2>1, <2>2 DEF Frames
<1> QED BY <1>2, SeqMonotonic DEF Typed

LEMMA EarliestIn ==
    ASSUME Typed
    PROVE  /\ Earliest \in 1..MaxEvents + 1 /\ \A s \in log : Earliest <= s
           /\ log # {} => Earliest \in log
<1>1. log \in SUBSET (1..MaxEvents) /\ MaxEvents \in Nat
  BY StreamBounds DEF Typed, Plain, Fields
<1>2. CASE log = {}
  BY <1>1, <1>2 DEF Earliest
<1>3. CASE log # {}
  <2>1. Lowest(log) \in log /\ \A s \in log : Lowest(log) <= s
    BY <1>1, <1>3, LowestIn
  <2>2. Earliest = Lowest(log)
    BY <1>3 DEF Earliest
  <2>3. Lowest(log) \in 1..MaxEvents
    BY <1>1, <2>1
  <2> QED BY <1>1, <2>1, <2>2, <2>3
<1> QED BY <1>2, <1>3

LEMMA RunSent ==
    ASSUME Typed, NEW S \in SUBSET (1..seq)
    PROVE  Run(S) \in Seq(Frames)
<1>1. CASE S = {}
  BY <1>1 DEF Run
<1>2. CASE S # {}
  <2>1. [trim |-> 0, run |-> S] \in Frames
    <3>1. seq \in 0..MaxEvents /\ MaxEvents \in Nat /\ log \subseteq 1..seq
      BY StreamBounds DEF Typed, Plain, Fields
    <3>2. S \in SUBSET (1..MaxEvents) /\ \A s \in log : 0 <= s
      BY <3>1
    <3> DEFINE f == [trim |-> 0, run |-> S]
    <3>3. /\ f \in [trim : 0..MaxEvents, run : SUBSET (1..MaxEvents)]
          /\ f.trim = 0 /\ f.run = S
      BY <3>1, <3>2
    <3> HIDE DEF f
    <3>4. f \in Frames
      BY <1>2, <3>1, <3>2, <3>3 DEF Frames
    <3> QED BY <3>4 DEF f
  <2>2. Run(S) = <<[trim |-> 0, run |-> S]>>
    BY <1>2 DEF Run
  <2> HIDE DEF Frames
  <2> QED BY <2>1, <2>2
<1> QED BY <1>1, <1>2

LEMMA HeadFrame ==
    ASSUME Typed, frames # <<>>
    PROVE  /\ Head(frames) \in Frames /\ Tail(frames) \in Seq(Frames)
           /\ Head(frames).trim = 0 =>
                /\ Lowest(Head(frames).run) \in Head(frames).run
                /\ Head(frames).run \subseteq 1..seq
<1>1. Head(frames) \in Frames /\ Tail(frames) \in Seq(Frames)
  BY HeadTailProperties DEF Typed
<1>2. MaxEvents \in Nat /\ Head(frames).run \in SUBSET (1..MaxEvents)
  BY <1>1, StreamBounds DEF Frames
<1>3. Head(frames).trim = 0 => Head(frames).run # {} /\ Head(frames).run \subseteq 1..seq
  BY <1>1 DEF Frames
<1> QED BY <1>1, <1>2, <1>3, LowestIn

\* What the trim of a file keeps of it.
LEMMA KeptIn ==
    ASSUME NEW S \in SUBSET (1..MaxEvents), NEW n \in S, \A r \in S : r <= n
    PROVE  Kept(S) \subseteq S /\ n \in Kept(S)
<1>1. {r \in S : r > n} = {}
  <2>1. ASSUME NEW r \in S, r > n PROVE FALSE
    <3>1. r \in 1..MaxEvents /\ n \in 1..MaxEvents /\ r <= n
      OBVIOUS
    <3> QED BY <2>1, <3>1
  <2> QED BY <2>1
<1>2. Cardinality({r \in S : r > n}) = 0
  BY <1>1, FS_EmptySet
<1>3. n \in Newest(S, TrimTo)
  <2>1. TrimTo \in Nat /\ 0 < TrimTo
    BY CapAssumption
  <2> QED BY <1>2, <2>1 DEF Newest
<1> QED BY <1>3 DEF Kept, Newest

LEMMA AppendKeeps ==
    ASSUME IInv, AppendEvent
    PROVE  /\ log' \subseteq log /\ disk' \subseteq log' /\ unwritten' \subseteq log'
           /\ unwritten' \subseteq unwritten
           /\ \A d \in disk', u \in unwritten' : d < u
<1> DEFINE next == Lowest(unwritten)
           kept == Kept(disk \cup {next})
<1>1. /\ MaxEvents \in Nat /\ log \subseteq 1..MaxEvents
      /\ unwritten \in SUBSET (1..MaxEvents) /\ unwritten # {} /\ disk \subseteq 1..MaxEvents
  BY StreamBounds DEF IInv, Typed, Plain, Fields, AppendEvent
<1>2. next \in unwritten /\ \A u \in unwritten : next <= u
  BY <1>1, LowestIn
<1>3. /\ disk' = kept /\ unwritten' = unwritten \ {next}
      /\ log' = log \/ log' = DropBefore(kept)
  BY DEF AppendEvent
<1> HIDE DEF next
<1>4. disk \subseteq log /\ unwritten \subseteq log /\ \A d \in disk, u \in unwritten : d < u
  BY DEF IInv, Ordered
<1>5. \A r \in disk \cup {next} : r <= next
  BY <1>1, <1>2, <1>4
<1>6. kept \subseteq disk \cup {next} /\ next \in kept
  <2>1. disk \cup {next} \in SUBSET (1..MaxEvents)
    BY <1>1, <1>2
  <2> QED BY <1>5, <2>1, KeptIn
<1>7. kept \in SUBSET (1..MaxEvents) /\ kept # {}
  BY <1>1, <1>2, <1>6
<1> HIDE DEF kept
<1>8. Lowest(kept) \in kept /\ \A r \in kept : Lowest(kept) <= r
  BY <1>1, <1>7, LowestIn
<1>9. /\ \A u \in unwritten' : Lowest(kept) <= u
      /\ \A d \in disk', u \in unwritten' : d < u
  <2> SUFFICES ASSUME NEW u \in unwritten'
               PROVE  Lowest(kept) <= u /\ \A d \in disk' : d < u
    OBVIOUS
  <2>1. u \in unwritten /\ next < u /\ Lowest(kept) <= next /\ u \in Int /\ next \in Int
    BY <1>1, <1>2, <1>3, <1>6, <1>8
  <2>2. Lowest(kept) \in 1..MaxEvents
    BY <1>7, <1>8
  <2>3. Lowest(kept) <= u
    BY <1>1, <2>1, <2>2
  <2>4. ASSUME NEW d \in disk' PROVE d < u
    <3>1. d \in disk \/ d = next
      BY <1>3, <1>6, <2>4
    <3> QED BY <1>4, <2>1, <3>1
  <2> QED BY <2>3, <2>4
<1> QED BY <1>3, <1>4, <1>6, <1>8, <1>9, <1>2 DEF DropBefore, From

\* The types are inductive, and so is the order of the file.
LEMMA InitTyped == Init => IInv
<1> SUFFICES ASSUME Init PROVE IInv
  OBVIOUS
<1>1. requests \in Seq(0..MaxEvents + 1) /\ frames \in Seq(Frames)
  BY StreamBounds DEF Init
<1>2. Plain
  <2>1. Fields
    <3>1. /\ seq = 0 /\ log = {} /\ unwritten = {} /\ disk = {} /\ stage = "idle" /\ from = 1
          /\ stream = "none" /\ seen = 0 /\ stale = FALSE /\ up = TRUE /\ follows = TRUE
          /\ detached = FALSE /\ awaiting = FALSE /\ last = 0 /\ shown = {} /\ strayed = "no"
          /\ drops = 0 /\ restarts = 0
      BY DEF Init
    <3>2. /\ 0 \in 0..MaxEvents /\ 1 \in 1..MaxEvents + 1
          /\ 0 \in 0..MaxDrops /\ 0 \in 0..MaxRestarts
      BY StreamBounds
    <3> QED BY <3>1, <3>2, Zenon DEF Fields
  <2> QED BY <1>1, <2>1 DEF Plain
<1>3. log = {} /\ disk = {} /\ unwritten = {}
  BY DEF Init
<1> QED BY <1>1, <1>2, <1>3 DEF IInv, Typed, Ordered

LEMMA LogTyped ==
    ASSUME IInv, Logged \/ AppendEvent \/ AppendFails \/ Restart PROVE IInv'
<1> USE DEF store, server, wire, window, bounds
<1>1. CASE Logged
  <2>1. frames' \in Seq(Frames')
    <3>1. seq' = seq + 1 /\ seq \in Nat /\ frames' = frames /\ log' = log \cup {seq + 1}
      BY <1>1 DEF Logged, IInv, Typed, Plain, Fields
    <3> QED BY <3>1, FramesGrow DEF IInv
  <2>2. Plain' /\ log' \subseteq 1..seq'
    BY <1>1, StreamBounds DEF Logged, IInv, Typed, Plain, Fields
  <2>3. Ordered'
    BY <1>1 DEF Logged, IInv, Typed, Plain, Fields, Ordered
  <2> QED BY <2>1, <2>2, <2>3 DEF IInv, Typed
<1>2. CASE AppendEvent
  <2>1. /\ log' \subseteq log /\ disk' \subseteq log' /\ unwritten' \subseteq log'
        /\ \A d \in disk', u \in unwritten' : d < u
    BY <1>2, AppendKeeps
  <2>2. /\ seq' = seq /\ frames' = frames
        /\ UNCHANGED <<server, up, wire, window, strayed, bounds>>
    BY <1>2 DEF AppendEvent
  <2>3. frames' \in Seq(Frames')
    <3>1. seq \in Nat
      BY DEF IInv, Typed, Plain, Fields
    <3> QED BY <2>1, <2>2, <3>1, FramesGrow DEF IInv
  <2>4. Plain'
    BY <2>1, <2>2 DEF IInv, Typed, Plain, Fields
  <2> QED BY <2>1, <2>2, <2>3, <2>4 DEF IInv, Typed, Ordered
<1>3. CASE AppendFails
  <2>1. Frames' = Frames
    BY <1>3, FramesStay DEF AppendFails
  <2> QED BY <1>3, <2>1 DEF AppendFails, IInv, Typed, Plain, Fields, Ordered
<1>4. CASE Restart
  <2>1. LastOnDisk \in 0..MaxEvents /\ disk \subseteq 1..LastOnDisk
    <3>1. disk \in SUBSET (1..MaxEvents) /\ MaxEvents \in Nat
      BY StreamBounds DEF IInv, Typed, Plain, Fields
    <3>2. CASE disk = {}
      BY <3>1, <3>2 DEF LastOnDisk
    <3>3. CASE disk # {}
      <4>1. Highest(disk) \in disk /\ \A r \in disk : r <= Highest(disk)
        BY <3>1, <3>3, HighestIn
      <4>2. LastOnDisk = Highest(disk)
        BY <3>3 DEF LastOnDisk
      <4>3. Highest(disk) \in 1..MaxEvents /\ \A r \in disk : r \in 1..MaxEvents
        BY <3>1, <4>1
      <4>4. \A r \in disk : r \in 1..Highest(disk)
        BY <4>1, <4>3
      <4> QED BY <4>2, <4>3, <4>4
    <3> QED BY <3>2, <3>3
  <2>2. frames' \in Seq(Frames') /\ requests' \in Seq(0..MaxEvents + 1)
    BY <1>4 DEF Restart
  <2>3. Plain' /\ log' \subseteq 1..seq'
    <3>1. restarts' \in 0..MaxRestarts
      BY <1>4, StreamBounds DEF Restart, IInv, Typed, Plain, Fields
    <3>2. Fields'
      BY <1>4, <2>1, <3>1 DEF Restart, IInv, Typed, Plain, Fields
    <3> QED BY <1>4, <2>1, <2>2, <3>2 DEF Restart, Plain
  <2>4. Ordered'
    BY <1>4 DEF Restart, Ordered
  <2> QED BY <2>2, <2>3, <2>4 DEF IInv, Typed
<1> QED BY <1>1, <1>2, <1>3, <1>4

\* The other steps leave the log alone.
LEMMA StillTyped ==
    ASSUME IInv, Plain', frames' \in Seq(Frames), UNCHANGED store PROVE IInv'
<1>1. Frames' = Frames
  BY FramesStay DEF store
<1> QED BY <1>1 DEF IInv, Typed, Ordered, store

LEMMA SendTyped ==
    ASSUME Plain, NEW r \in 0..MaxEvents + 1
    PROVE  Append(requests, r) \in Seq(0..MaxEvents + 1)
BY AppendProperties DEF Plain, Fields

LEMMA HeadRequest ==
    ASSUME Plain, requests # <<>>
    PROVE  Head(requests) \in 0..MaxEvents + 1 /\ Tail(requests) \in Seq(0..MaxEvents + 1)
BY HeadTailProperties DEF Plain, Fields

LEMMA ServeTyped == ASSUME IInv, Serve PROVE IInv'
<1> USE DEF store, wire, window, bounds
<1>1. Plain /\ frames \in Seq(Frames) /\ Typed
  BY DEF IInv, Typed
<1>2. CASE AttachBegins \/ Detach
  <2>1. Head(requests) \in 0..MaxEvents + 1 /\ requests' \in Seq(0..MaxEvents + 1)
    BY <1>1, <1>2, HeadRequest DEF AttachBegins, Detach
  <2>2. AttachBegins => Plain'
    BY <1>1, <2>1 DEF AttachBegins, Plain, Fields
  <2>3. Detach => Plain'
    BY <1>1, <2>1 DEF Detach, Plain, Fields
  <2> QED BY <1>1, <1>2, <2>2, <2>3, StillTyped DEF AttachBegins, Detach
<1>3. CASE SendNotice
  <2>1. Earliest \in 1..MaxEvents + 1 /\ (log # {} => Earliest \in log)
        /\ \A s \in log : Earliest <= s
    BY <1>1, EarliestIn
  <2>2. log # {} /\ log \subseteq 1..MaxEvents /\ log \subseteq 1..seq
    BY <1>1, <1>3 DEF SendNotice, Earliest, Typed, Plain, Fields
  <2>3. Trimmed(Earliest) \in Frames
    <3> DEFINE f == Trimmed(Earliest)
    <3>1. f \in [trim : 0..MaxEvents, run : SUBSET (1..MaxEvents)]
      BY <2>1, <2>2, StreamBounds DEF Trimmed
    <3>2. f.run = {} /\ f.trim = Earliest
      BY DEF Trimmed
    <3> HIDE DEF f
    <3>3. f \in Frames
      BY <2>1, <2>2, <3>1, <3>2 DEF Frames
    <3> QED BY <3>3 DEF f
  <2>4. frames' \in Seq(Frames)
    BY <1>1, <1>3, <2>3, AppendProperties DEF SendNotice
  <2>5. Plain'
    BY <1>1, <1>3, <2>1 DEF SendNotice, Plain, Fields
  <2> QED BY <1>3, <2>4, <2>5, StillTyped DEF SendNotice
<1>4. CASE Replay \/ StreamSends
  <2>1. ASSUME NEW n PROVE Run(From(log, n)) \in Seq(Frames)
    <3>1. From(log, n) \in SUBSET (1..seq)
      BY <1>1 DEF From, Typed
    <3> QED BY <1>1, <3>1, RunSent
  <2>2. frames' \in Seq(Frames)
    <3>1. PICK n : frames' = frames \o Run(From(log, n))
      BY <1>4 DEF Replay, StreamSends
    <3> QED BY <1>1, <2>1, <3>1, ConcatProperties
  <2>3. Plain'
    BY <1>1, <1>4 DEF Replay, StreamSends, SeenAfter, Plain, Fields
  <2> QED BY <1>4, <2>2, <2>3, StillTyped DEF Replay, StreamSends
<1>5. CASE CreateStream \/ StreamStarts \/ StaleCleanup
  <2>1. Plain'
    BY <1>1, <1>5 DEF CreateStream, StreamStarts, StaleCleanup, CleanupOwned, Plain, Fields
  <2> QED BY <1>1, <1>5, <2>1, StillTyped DEF CreateStream, StreamStarts, StaleCleanup
<1> QED BY <1>2, <1>3, <1>4, <1>5 DEF Serve

LEMMA WindowTyped ==
    ASSUME IInv, LoseConnection \/ Reconnect \/ Receive \/ Person PROVE IInv'
<1> USE DEF store, server, wire, window, bounds
<1>1. /\ Plain /\ frames \in Seq(Frames) /\ Typed
      /\ last + 1 \in 0..MaxEvents + 1 /\ seq \in 0..MaxEvents
      /\ MaxEvents \in Nat /\ MaxDrops \in Nat
  <2>1. Plain /\ frames \in Seq(Frames) /\ Typed
    BY DEF IInv, Typed
  <2>2. last \in 0..MaxEvents /\ seq \in 0..MaxEvents /\ MaxEvents \in Nat /\ MaxDrops \in Nat
    BY <2>1, StreamBounds DEF Plain, Fields
  <2> QED BY <2>1, <2>2
<1>2. CASE LoseConnection
  <2>1. frames' \in Seq(Frames) /\ requests' \in Seq(0..MaxEvents + 1)
    BY <1>2 DEF LoseConnection, Gone
  <2>2. Plain'
    <3>1. Fields'
      <4>1. /\ drops < MaxDrops /\ drops' = drops + 1 /\ up' = FALSE /\ stage' = "idle"
            /\ stream' = "none" /\ stale' = FALSE
            /\ UNCHANGED <<store, from, seen, window, strayed, restarts>>
        BY <1>2 DEF LoseConnection, Gone
      <4>2. drops' \in 0..MaxDrops
        BY <1>1, <4>1 DEF Plain, Fields
      <4> QED BY <1>1, <4>1, <4>2 DEF Plain, Fields
    <3> QED BY <2>1, <3>1 DEF Plain
  <2> QED BY <1>2, <2>1, <2>2, StillTyped DEF LoseConnection
<1>3. CASE Reconnect
  <2>1. requests' \in Seq(0..MaxEvents + 1)
    <3>1. <<last + 1>> \in Seq(0..MaxEvents + 1) /\ <<>> \in Seq(0..MaxEvents + 1)
      BY <1>1
    <3> QED BY <1>3, <3>1 DEF Reconnect
  <2>2. Plain'
    BY <1>1, <1>3, <2>1 DEF Reconnect, Plain, Fields
  <2> QED BY <1>1, <1>3, <2>2, StillTyped DEF Reconnect
<1>4. CASE ReceiveNotice
  <2>1. Head(frames) \in Frames /\ Tail(frames) \in Seq(Frames)
    BY <1>1, <1>4, HeadFrame DEF ReceiveNotice
  <2>2. Head(frames).trim \in 0..MaxEvents /\ Head(frames).trim > 0
    BY <1>4, <2>1 DEF ReceiveNotice, Frames
  <2>3. Plain'
    <3>1. last' \in 0..MaxEvents
      <4>1. CASE last' = last
        BY <1>1, <4>1 DEF Plain, Fields
      <4>2. CASE last' = Head(frames).trim - 1
        BY <1>1, <2>2, <4>2
      <4> QED BY <1>4, <4>1, <4>2 DEF ReceiveNotice, Jump
    <3>2. awaiting' \in BOOLEAN
      BY <1>1, <1>4 DEF ReceiveNotice, Plain, Fields
    <3> QED BY <1>1, <1>4, <3>1, <3>2 DEF ReceiveNotice, Plain, Fields
  <2> QED BY <1>4, <2>1, <2>3, StillTyped DEF ReceiveNotice
<1>5. CASE ReceiveEvent
  <2> DEFINE s == Lowest(Head(frames).run)
  <2>1. /\ s \in Head(frames).run /\ Head(frames).run \subseteq 1..seq
        /\ Tail(frames) \in Seq(Frames)
    BY <1>1, <1>5, HeadFrame DEF ReceiveEvent
  <2>2. s \in 1..MaxEvents
    <3> HIDE DEF s
    <3> QED BY <1>1, <2>1
  <2>3. Rest(s) \in Seq(Frames)
    <3>1. Head(frames).run \ {s} \in SUBSET (1..seq)
      BY <2>1
    <3>2. Run(Head(frames).run \ {s}) \in Seq(Frames)
      BY <1>1, <3>1, RunSent
    <3> QED BY <2>1, <3>2, ConcatProperties DEF Rest
  <2>4. CASE frames' = Rest(s) /\ UNCHANGED <<server, up, requests>>
             /\ \/ last' = last /\ shown' = shown
                \/ last' = s /\ shown' \subseteq shown \cup {s}
             /\ awaiting' \in BOOLEAN
    <3> HIDE DEF s
    <3>1. UNCHANGED <<store, follows, detached, strayed, bounds>>
      BY <1>5 DEF ReceiveEvent
    <3>2. last' \in 0..MaxEvents /\ shown' \subseteq 1..MaxEvents
      <4>1. last \in 0..MaxEvents /\ shown \subseteq 1..MaxEvents
        BY <1>1 DEF Plain, Fields
      <4>2. s \in 0..MaxEvents
        BY <2>2
      <4> QED BY <2>2, <2>4, <4>1, <4>2
    <3>3. awaiting' \in BOOLEAN /\ UNCHANGED <<store, server, up, requests, follows, detached,
                                              strayed, bounds>>
      BY <2>4, <3>1
    <3>4. Plain'
      BY <1>1, <3>2, <3>3 DEF Plain, Fields
    <3> QED BY <2>3, <2>4, <3>1, <3>4, StillTyped
  <2>5. CASE up' = FALSE /\ Gone /\ UNCHANGED <<from, seen, awaiting, last, shown>>
    <3>1. UNCHANGED <<store, follows, detached, strayed, bounds>>
      BY <1>5 DEF ReceiveEvent
    <3>2. frames' \in Seq(Frames) /\ requests' \in Seq(0..MaxEvents + 1)
      BY <2>5 DEF Gone
    <3>3. Plain'
      BY <1>1, <2>5, <3>1, <3>2 DEF Gone, Plain, Fields
    <3> QED BY <3>1, <3>2, <3>3, StillTyped
  <2> QED BY <1>1, <1>5, <2>4, <2>5 DEF ReceiveEvent, Plain, Fields
<1>6. CASE Person
  <2>1. requests' \in Seq(0..MaxEvents + 1)
    <3>1. ASSUME NEW r \in 0..MaxEvents + 1, Send(r)
          PROVE  requests' \in Seq(0..MaxEvents + 1)
      BY <1>1, <3>1, SendTyped DEF Send, Plain, Fields
    <3>2. 0 \in 0..MaxEvents + 1
      BY <1>1
    <3> QED BY <1>1, <1>6, <3>1, <3>2 DEF Person, Open, Leave, ResumePage
  <2>2. Plain'
    <3>1. Fields'
      <4>1. /\ UNCHANGED <<store, server, up, strayed, bounds>>
            /\ follows' \in BOOLEAN /\ detached' \in BOOLEAN
            /\ last' \in {last, 0} /\ shown' \in {shown, {}}
        BY <1>1, <1>6 DEF Person, Open, Leave, ResumePage, Plain, Fields
      <4>2. awaiting' \in BOOLEAN
        BY <1>1, <1>6 DEF Person, Open, Leave, ResumePage, Plain, Fields
      <4> QED BY <1>1, <4>1, <4>2 DEF Plain, Fields
    <3> QED BY <2>1, <3>1 DEF Plain
  <2> QED BY <1>1, <1>6, <2>2, StillTyped DEF Person, Open, Leave, ResumePage
<1> QED BY <1>2, <1>3, <1>4, <1>5, <1>6 DEF Receive

LEMMA IInvStep == IInv /\ [Next]_vars => IInv'
<1> SUFFICES ASSUME IInv, [Next]_vars PROVE IInv'
  OBVIOUS
<1>1. CASE UNCHANGED vars
  <2>1. Plain'
    BY <1>1 DEF vars, store, server, wire, window, bounds, IInv, Typed, Plain, Fields
  <2> QED BY <1>1, <2>1, StillTyped DEF vars, wire, IInv, Typed
<1> QED BY <1>1, LogTyped, ServeTyped, WindowTyped DEF Next

LEMMA Invariance == Spec => []IInv
<1> QED BY InitTyped, IInvStep, PTL DEF Spec

\* Every variable keeps its type: in particular no frame, however late it is
\* taken, holds an event that was never logged or an empty run (session.py,
\* SessionEventLog; daemon.py, the streamer).
THEOREM StreamTypes == Spec => []TypeOK
<1>1. IInv => TypeOK
  BY TypedIsTypeOK DEF IInv
<1> QED BY <1>1, Invariance, PTL

\* What the file holds can be replayed from memory, whichever appends fail and
\* however often it is trimmed (SessionEventLog.drop_before).
THEOREM FileInMemory == Spec => []DiskInMemory
<1>1. IInv => DiskInMemory
  BY DEF IInv, Ordered, DiskInMemory
<1> QED BY <1>1, Invariance, PTL

----------------------------------------------------------------------------
\* The window's cursor.

\* Nothing is on its way to a window that has no socket, nor to one that came
\* back without following the session.
Quiet == requests = <<>> /\ frames = <<>> /\ stage = "idle" /\ stream = "none"
QuietInv ==
    /\ ~up => Quiet
    /\ ~follows /\ ~detached => Quiet

LEMMA QuietKept == ASSUME IInv, QuietInv, [Next]_vars PROVE QuietInv'
<1> USE DEF store, server, wire, window, bounds, QuietInv, Quiet
<1>1. CASE UNCHANGED vars \/ Logged \/ AppendEvent \/ AppendFails \/ Restart
  BY <1>1 DEF vars, Logged, AppendEvent, AppendFails, Restart
<1>2. CASE Serve
  <2>1. ~Quiet => up /\ (follows \/ detached)
    OBVIOUS
  <2>2. UNCHANGED <<up, follows, detached>>
    BY <1>2 DEF Serve, AttachBegins, SendNotice, Replay, CreateStream, StreamStarts, StreamSends,
       Detach, StaleCleanup
  <2>3. CASE Quiet
    BY <1>2, <2>3 DEF Serve, AttachBegins, SendNotice, Replay, CreateStream, StreamStarts,
       StreamSends, Detach, StaleCleanup, CleanupOwned
  <2> QED BY <2>1, <2>2, <2>3
<1>3. CASE LoseConnection \/ Reconnect
  BY <1>3 DEF LoseConnection, Reconnect, Gone
<1>4. CASE ReceiveNotice
  BY <1>4 DEF ReceiveNotice
<1>5. CASE ReceiveEvent
  <2>1. UNCHANGED up \/ Gone
    BY <1>5 DEF ReceiveEvent
  <2>2. up /\ frames # <<>> /\ UNCHANGED <<follows, detached>>
    BY <1>5 DEF ReceiveEvent
  <2> QED BY <2>1, <2>2 DEF Gone
<1>6. CASE Person
  <2>1. follows' \/ detached'
    BY <1>6 DEF Person, Open, Leave, ResumePage
  <2>2. up' = up /\ UNCHANGED <<frames, stage, stream>> /\ (~up => requests' = requests)
    BY <1>6 DEF Person, Open, Leave, ResumePage, Send
  <2> QED BY <2>1, <2>2
<1> QED BY <1>1, <1>2, <1>3, <1>4, <1>5, <1>6 DEF Next, Receive

CursorInv == NoGap /\ CursorWithinLog

\* With the newest event in the file, a restart goes on with the numbers.
LEMMA SeqReturns == ASSUME "unwritten" \notin Mishaps, IInv, Restart PROVE seq' = seq
<1>1. disk \subseteq 1..seq /\ seq \in Nat
  BY DEF IInv, Typed, Plain, Fields, Ordered
<1>2. seq \in disk \cup {0} /\ seq' = LastOnDisk
  BY DEF Restart
<1>3. CASE seq \in disk
  <2>1. \A r \in disk : r <= seq /\ r \in Int
    BY <1>1
  <2>2. \A h \in disk : (\A r \in disk : r <= h) <=> h = seq
    BY <1>1, <1>3, <2>1
  <2>3. Highest(disk) = seq
    BY <1>3, <2>2 DEF Highest
  <2> QED BY <1>2, <1>3, <2>3 DEF LastOnDisk
<1>4. CASE seq = 0
  <2>1. disk = {}
    BY <1>1, <1>4
  <2> QED BY <1>2, <1>4, <2>1 DEF LastOnDisk
<1> QED BY <1>2, <1>3, <1>4

LEMMA CursorKept ==
    ASSUME "unwritten" \notin Mishaps, IInv, QuietInv, CursorInv, [Next]_vars PROVE CursorInv'
<1> USE DEF store, server, wire, window, bounds
<1>1. /\ log \subseteq 1..seq /\ disk \subseteq log /\ last <= seq
      /\ last \in Nat /\ seq \in Nat /\ Typed /\ \A s \in log : s <= last => s \in shown
  BY DEF IInv, Typed, Plain, Fields, Ordered, CursorInv, NoGap, CursorWithinLog
<1>2. ASSUME log' \subseteq log, UNCHANGED <<seq, last, shown>> PROVE CursorInv'
  BY <1>1, <1>2 DEF CursorInv, NoGap, CursorWithinLog
<1>3. CASE Logged
  <2>1. seq' = seq + 1 /\ log' = log \cup {seq + 1} /\ UNCHANGED <<last, shown>>
    BY <1>3 DEF Logged
  <2> QED BY <1>1, <2>1 DEF CursorInv, NoGap, CursorWithinLog
<1>4. CASE Restart
  <2>1. seq \in disk \cup {0} /\ log' = disk /\ seq' = LastOnDisk /\ UNCHANGED <<last, shown>>
    BY <1>4 DEF Restart
  <2>2. seq' = seq
    BY <1>4, SeqReturns
  <2> QED BY <1>1, <2>1, <2>2 DEF CursorInv, NoGap, CursorWithinLog
<1>5. CASE ReceiveNotice
  <2>1. Head(frames) \in Frames
    BY <1>1, <1>5, HeadFrame DEF ReceiveNotice
  <2>2. /\ Head(frames).trim \in Nat /\ Head(frames).trim <= seq
        /\ \A s \in log : Head(frames).trim <= s
    BY <2>1, StreamBounds DEF Frames
  <2>3. /\ last' \in {last, Head(frames).trim - 1}
        /\ UNCHANGED <<seq, log, shown>>
    BY <1>5 DEF ReceiveNotice, Jump
  <2> QED BY <1>1, <2>2, <2>3 DEF CursorInv, NoGap, CursorWithinLog
<1>6. CASE ReceiveEvent
  <2> DEFINE s == Lowest(Head(frames).run)
  <2>1. up /\ frames # <<>> /\ UNCHANGED <<seq, log>> /\ Head(frames).trim = 0
    BY <1>6 DEF ReceiveEvent
  <2>2. s \in Head(frames).run /\ Head(frames).run \subseteq 1..seq
    BY <1>1, <2>1, HeadFrame
  <2>3. CASE UNCHANGED <<last, shown>>
    BY <1>2, <2>1, <2>3
  <2>4. CASE ~LeftBehind /\ s = last + 1 /\ last' = s /\ shown' = IF follows THEN shown \cup {s} ELSE shown
    <3>1. follows
      BY <2>1, <2>4 DEF QuietInv, Quiet, LeftBehind
    <3> HIDE DEF s
    <3>2. s \in 1..seq /\ shown' = shown \cup {s}
      BY <2>2, <2>4, <3>1
    <3> QED BY <1>1, <2>1, <2>4, <3>2 DEF CursorInv, NoGap, CursorWithinLog
  <2> QED BY <1>6, <2>3, <2>4 DEF ReceiveEvent
<1>7. CASE Leave
  <2>1. last' = 0 /\ shown' = {} /\ UNCHANGED <<seq, log>>
    BY <1>7 DEF Leave
  <2> QED BY <1>1, <2>1 DEF CursorInv, NoGap, CursorWithinLog
<1>8. CASE AppendEvent
  BY <1>2, <1>8, AppendKeeps DEF AppendEvent
<1>9. CASE UNCHANGED vars \/ AppendFails \/ Serve \/ LoseConnection \/ Reconnect \/ Open \/ ResumePage
  BY <1>2, <1>9 DEF vars, AppendFails, Serve, AttachBegins, SendNotice, Replay, CreateStream,
     StreamStarts, StreamSends, Detach, StaleCleanup, LoseConnection, Reconnect, Open, ResumePage
<1> QED BY <1>3, <1>4, <1>5, <1>6, <1>7, <1>8, <1>9 DEF Next, Receive, Person

LEMMA CursorInvariance ==
    ASSUME "unwritten" \notin Mishaps PROVE Spec => []CursorInv
<1>1. Init => QuietInv /\ CursorInv
  BY DEF Init, QuietInv, CursorInv, NoGap, CursorWithinLog
<1>2. IInv /\ QuietInv /\ CursorInv /\ [Next]_vars => QuietInv' /\ CursorInv'
  BY QuietKept, CursorKept
<1> QED BY <1>1, <1>2, Invariance, PTL DEF Spec

\* The window never moves its cursor over an event that the log still holds and
\* the window does not show, whatever order attaches, detaches, replays, trims,
\* lost connections and restarts take, if the file has the newest event at
\* each restart (client.ts, acceptSequenced and log_trimmed).
THEOREM NoGaps == ASSUME "unwritten" \notin Mishaps PROVE Spec => []NoGap
<1>1. CursorInv => NoGap
  BY DEF CursorInv
<1> QED BY <1>1, CursorInvariance, PTL

\* Nor does it run ahead of the log, so that nothing that is logged later is
\* dropped as a duplicate (SessionEventLog.replace).
THEOREM CursorStaysWithin == ASSUME "unwritten" \notin Mishaps PROVE Spec => []CursorWithinLog
<1>1. CursorInv => CursorWithinLog
  BY DEF CursorInv
<1> QED BY <1>1, CursorInvariance, PTL
=============================================================================
