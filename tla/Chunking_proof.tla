--------------------------- MODULE Chunking_proof ---------------------------
(***************************************************************************)
(* Proofs about Chunking for any number of messages, subscriptions and     *)
(* assembler objects, any message and chunk sizes and any pool limit: the  *)
(* dictionaries of a ChunkingManager agree, pooled assemblers are never    *)
(* shared, and whole messages reach the handlers, intact and once.         *)
(***************************************************************************)
EXTENDS Chunking, TLAPS, FiniteSetTheorems

(* A new ChunkingManager is empty. *)
LEMMA BookInit == Init => Bookkeeping
  BY DEF Init, Bookkeeping

(* Every step of the manager keeps its dictionaries in agreement. *)
LEMMA BookStep == Bookkeeping /\ [Next]_vars => Bookkeeping'
<1>. SUFFICES ASSUME Bookkeeping, [Next]_vars PROVE Bookkeeping'
  OBVIOUS
<1>1. ASSUME NEW t \in Transfers, GrowOld(t) PROVE Bookkeeping'
  BY <1>1 DEF Bookkeeping, GrowOld
<1>2. ASSUME NEW ts, NEW touched, Forget(ts, touched) PROVE Bookkeeping'
  BY <1>2 DEF Bookkeeping, Forget, RestrictTo
<1>3. ASSUME NEW s \in Subs, HandleHeader(s) PROVE Bookkeeping'
  <2>1. PICK swept \in SweptSets : StartReceiving(s, Head(q[s]).id, swept)
    BY <1>3 DEF HandleHeader
  <2>. QED BY <2>1 DEF Bookkeeping, StartReceiving
<1>4. ASSUME NEW s \in Subs, ChunkUnknown(s) PROVE Bookkeeping'
  <2>1. PICK swept \in SweptSets : Forget(swept, {})
    BY <1>4 DEF ChunkUnknown
  <2>. QED BY <1>2, <2>1
<1>5. ASSUME NEW s \in Subs, ChunkKnown(s) PROVE Bookkeeping'
  <2>1. \E ts, touched : Forget(ts, touched)
    BY <1>5 DEF ChunkKnown
  <2>. QED BY <1>2, <2>1
<1>6. ASSUME NEW t \in Transfers, Cancel(t) PROVE Bookkeeping'
  BY <1>2, <1>6 DEF Cancel
<1>7. CASE Teardown
  BY <1>7 DEF Teardown, Bookkeeping
<1>8. CASE UNCHANGED mgrVars
  BY <1>8 DEF mgrVars, Bookkeeping
<1>. QED
  BY <1>1, <1>3, <1>4, <1>5, <1>6, <1>7, <1>8 DEF Next, Publish, HandlePlain, vars, mgrVars

(* The assemblers, the callbacks and the activity stamps of a ChunkingManager
   always speak of the same transfers: nothing is left of one that completed,
   was swept or was cancelled. *)
THEOREM DictionariesAgree == Spec => []Bookkeeping
  BY BookInit, BookStep, PTL DEF Spec

-----------------------------------------------------------------------------
(* The assembler objects: the pool and the assemblers in use are objects, and
   each object has an id. *)
ObjInv ==
    /\ DOMAIN obj = Objs /\ \A o \in Objs : "id" \in DOMAIN obj[o]
    /\ pool \subseteq Objs
    /\ \A t \in DOMAIN asm : asm[t] \in Objs

AliasInv == ObjInv /\ NoAliasing

(* add_chunk() and get_data() leave the id of an assembler alone. *)
SameIds ==
    DOMAIN obj' = Objs /\ \A o \in Objs : "id" \in DOMAIN obj'[o] /\ obj'[o].id = obj[o].id

(* No object is pooled or in use at first. *)
LEMMA AliasInit == Init => AliasInv
<1>1. Cardinality({}) = 0
  BY FS_EmptySet
<1>. QED BY <1>1, ChunkingAssumption DEF Init, AliasInv, ObjInv, NoAliasing, NewAssembler

(* Pooling objects that were in use: within the limit, and only those. *)
LEMMA PoolGrows ==
  ASSUME AliasInv, NEW ts, NEW p \in PoolsAfter(ObjectsOf(ts))
  PROVE  /\ p \subseteq Objs /\ IsFiniteSet(p) /\ Cardinality(p) <= PoolLimit
         /\ \A u \in DOMAIN asm \ ts : asm[u] \notin p
<1>1. p \subseteq pool \cup ObjectsOf(ts) /\ Cardinality(p) <= PoolLimit
  BY DEF PoolsAfter
<1>2. p \subseteq Objs
  BY <1>1 DEF ObjectsOf, AliasInv, ObjInv
<1>3. IsFiniteSet(p)
  BY <1>2, FS_Subset, ChunkingAssumption
<1>4. \A u \in DOMAIN asm \ ts : asm[u] \notin p
  BY <1>1 DEF ObjectsOf, AliasInv, NoAliasing
<1>. QED BY <1>1, <1>2, <1>3, <1>4

(* Completion, sweep and cancel() pool the assemblers they take. *)
LEMMA ForgetAlias ==
  ASSUME AliasInv, NEW ts, NEW touched, Forget(ts, touched), SameIds
  PROVE  AliasInv'
<1>1. /\ pool' \subseteq Objs /\ Cardinality(pool') <= PoolLimit
      /\ \A u \in DOMAIN asm \ ts : asm[u] \notin pool'
  BY PoolGrows DEF Forget
<1>2. DOMAIN asm' = DOMAIN asm \ ts /\ \A u \in DOMAIN asm' : asm'[u] = asm[u]
  BY DEF Forget, RestrictTo
<1>. QED BY <1>1, <1>2 DEF AliasInv, ObjInv, NoAliasing, SameIds

(* start_receiving() hands out an object nobody uses. *)
LEMMA StartAlias ==
  ASSUME AliasInv, NEW s, NEW t, NEW swept, StartReceiving(s, t, swept)
  PROVE  AliasInv'
<1>1. PICK p \in PoolsAfter(ObjectsOf(swept)) :
      \E o \in IF p # {} THEN p ELSE Objs \ {asm[u] : u \in DOMAIN asm \ swept} :
       /\ pool' = p \ {o}
       /\ obj' = [obj EXCEPT ![o] = [id |-> t, got |-> {}, total |-> TotalChunks(size[t]),
                                      buf |-> [j \in 0..(size[t] - 1) |-> Zero]]]
       /\ asm' = [u \in (DOMAIN asm \ swept) \cup {t} |-> IF u = t THEN o ELSE asm[u]]
  BY DEF StartReceiving
<1>2. /\ p \subseteq Objs /\ IsFiniteSet(p) /\ Cardinality(p) <= PoolLimit
      /\ \A u \in DOMAIN asm \ swept : asm[u] \notin p
  BY <1>1, PoolGrows
<1>3. PICK o \in IF p # {} THEN p ELSE Objs \ {asm[u] : u \in DOMAIN asm \ swept} :
       /\ pool' = p \ {o}
       /\ obj' = [obj EXCEPT ![o] = [id |-> t, got |-> {}, total |-> TotalChunks(size[t]),
                                      buf |-> [j \in 0..(size[t] - 1) |-> Zero]]]
       /\ asm' = [u \in (DOMAIN asm \ swept) \cup {t} |-> IF u = t THEN o ELSE asm[u]]
  BY <1>1
<1>4. o \in Objs /\ \A u \in DOMAIN asm \ swept : asm[u] # o
  BY <1>2, <1>3
<1>5. Cardinality(pool') <= PoolLimit
  <2>1. IsFiniteSet(pool') /\ Cardinality(pool') <= Cardinality(p)
    BY <1>2, <1>3, FS_Subset
  <2>. QED BY <1>2, <2>1, FS_CardinalityType, ChunkingAssumption
<1>6. /\ DOMAIN obj' = Objs /\ obj'[o].id = t /\ "id" \in DOMAIN obj'[o]
      /\ \A x \in Objs \ {o} : obj'[x] = obj[x]
  <2>. DEFINE a == [id |-> t, got |-> {}, total |-> TotalChunks(size[t]),
                    buf |-> [j \in 0..(size[t] - 1) |-> Zero]]
  <2>1. a.id = t /\ "id" \in DOMAIN a
    OBVIOUS
  <2>2. obj' = [obj EXCEPT ![o] = a] /\ o \in Objs /\ DOMAIN obj = Objs
    BY <1>3, <1>4 DEF AliasInv, ObjInv
  <2>. HIDE DEF a
  <2>. QED BY <2>1, <2>2
<1>. QED BY <1>2, <1>3, <1>4, <1>5, <1>6 DEF AliasInv, ObjInv, NoAliasing

(* Every step keeps pooled and used assemblers apart. *)
LEMMA AliasStep == AliasInv /\ [Next]_vars => AliasInv'
<1>. SUFFICES ASSUME AliasInv, [Next]_vars PROVE AliasInv'
  OBVIOUS
<1>0. obj' = obj => SameIds
  BY DEF AliasInv, ObjInv, SameIds
<1>1. ASSUME NEW s \in Subs, HandleHeader(s) PROVE AliasInv'
  <2>1. PICK swept \in SweptSets : StartReceiving(s, Head(q[s]).id, swept)
    BY <1>1 DEF HandleHeader
  <2>. QED BY <2>1, StartAlias
<1>2. ASSUME NEW s \in Subs, ChunkUnknown(s) PROVE AliasInv'
  <2>1. PICK swept \in SweptSets : Forget(swept, {}) /\ obj' = obj
    BY <1>2 DEF ChunkUnknown
  <2>. QED BY <1>0, <2>1, ForgetAlias
<1>3. ASSUME NEW s \in Subs, ChunkKnown(s) PROVE AliasInv'
  <2>. DEFINE t == Head(q[s]).id
              i == Head(q[s]).index
  <2>1. t \in DOMAIN asm /\ obj' = [obj EXCEPT ![asm[t]] = AddChunk(obj[asm[t]], i, ChunkBytes(t, i))]
    BY <1>3 DEF ChunkKnown
  <2>2. \E ts, touched : Forget(ts, touched)
    BY <1>3 DEF ChunkKnown
  <2>3. SameIds
    BY <2>1 DEF SameIds, AddChunk, AliasInv, ObjInv
  <2>. QED BY <2>2, <2>3, ForgetAlias
<1>4. ASSUME NEW t \in Transfers, Cancel(t) PROVE AliasInv'
  BY <1>0, <1>4, ForgetAlias DEF Cancel
<1>5. CASE Teardown
  <2>1. Cardinality({}) = 0
    BY FS_EmptySet
  <2>. QED BY <1>5, <2>1, ChunkingAssumption DEF Teardown, AliasInv, ObjInv, NoAliasing
<1>6. CASE UNCHANGED <<asm, obj, pool>>
  BY <1>6 DEF AliasInv, ObjInv, NoAliasing
<1>. QED
  BY <1>1, <1>2, <1>3, <1>4, <1>5, <1>6 DEF Next, Publish, GrowOld, HandlePlain, vars, mgrVars

(* A pooled assembler assembles nothing, two transfers never share one, and
   the pool of a ChunkingManager respects its limit, however sweeps, repeated
   headers, completions and cancel() interleave. *)
THEOREM AssemblersNotShared == Spec => []NoAliasing
<1>1. AliasInv => NoAliasing
  BY DEF AliasInv
<1>. QED BY <1>1, AliasInit, AliasStep, PTL DEF Spec

-----------------------------------------------------------------------------
(* Messages, buffers and deliveries. *)

(* The number of a message within its transfer, from 0. *)
Num(m) == IF m.kind = "chunk" THEN m.index + 1 ELSE 0

Messages == [kind : {"plain", "header"}, id : Transfers]
              \cup [kind : {"chunk"}, id : Transfers, index : Nat]

WellFormed(m) ==
    IF IsChunked(m.id)
    THEN m.kind = "header" \/ (m.kind = "chunk" /\ m.index < TotalChunks(size[m.id]))
    ELSE m.kind = "plain"

InQueue(s, t, k) == \E p \in 1..Len(q[s]) : q[s][p].id = t /\ Num(q[s][p]) = k
Has(f, t) == \E k \in 1..Len(f) : f[k].id = t
InOut(s, t) == Has(out[s], t)
InReady(s, t) == Has(ready[s], t)
Handed(s, t) == InOut(s, t) \/ InReady(s, t)

SizeInv ==
    /\ size \in [Transfers -> Sizes]
    /\ sent \in [Transfers -> Nat] /\ \A t \in Transfers : sent[t] <= MessagesOf(t)
    /\ broken \subseteq Transfers

Expected(s, m) == WellFormed(m) /\ Num(m) < sent[m.id] /\ s \in Listeners[m.id]

Ordered(f) ==
    \A p, r \in 1..Len(f) : p < r /\ f[p].id = f[r].id => Num(f[p]) < Num(f[r])

(* Messages of a transfer are queued at the listeners, in the order they were
   published and each at most once. *)
QueueInv ==
    /\ q \in [Subs -> Seq(Messages)]
    /\ \A s \in Subs : Ordered(q[s]) /\ \A p \in 1..Len(q[s]) : Expected(s, q[s][p])

(* ... and without a gap, unless one was lost. *)
GapInv ==
    \A t \in Transfers \ broken : \A s \in Listeners[t] :
        \A k, l \in 0..sent[t] : InQueue(s, t, k) /\ k < l /\ l < sent[t] => InQueue(s, t, l)

(* The bytes of the chunks that were counted are in their place. *)
Placed(a, t) ==
    /\ DOMAIN a.buf = 0..(size[t] - 1)
    /\ \A j \in 0..(size[t] - 1) : (j \div ChunkSize) \in a.got => a.buf[j] = <<t, j>>

(* The assembler of t: the chunks it counted are in their place. *)
Assembles(a, t) ==
    /\ a.id = t /\ a.total = TotalChunks(size[t])
    /\ a.got \subseteq 0..(TotalChunks(size[t]) - 1)
    /\ a.got # 0..(TotalChunks(size[t]) - 1)
    /\ Placed(a, t)

IsAssembler(a) ==
    /\ a = [id |-> a.id, got |-> a.got, total |-> a.total, buf |-> a.buf]
    /\ a.got \subseteq Nat /\ a.total \in Nat
    /\ a.buf = [j \in DOMAIN a.buf |-> a.buf[j]]
    /\ \A j \in DOMAIN a.buf : a.buf[j] \in Bytes

Built(t) ==
    /\ t \in Transfers /\ IsChunked(t) /\ sent[t] > 0
    /\ Assembles(obj[asm[t]], t)
    /\ cb[t] \in Subs /\ cb[t] \in Listeners[t] /\ ~InQueue(cb[t], t, 0)

BuildInv ==
    /\ \A o \in Objs : IsAssembler(obj[o])
    /\ \A t \in DOMAIN asm : Built(t)

(* What is handed over: a message with its whole payload. *)
Item(t) == [id |-> t, data |-> Payload(t)]
Items == {Item(t) : t \in Transfers}

ItemInv == out \in [Subs -> Seq(Items)] /\ ready \in [Subs -> Seq(Items)]

NoTwice(f) == \A k, l \in 1..Len(f) : f[k].id = f[l].id => k = l

(* A message that was handed over is neither queued from its start nor being
   assembled for the same subscription, so it cannot be handed over again. *)
OnceInv ==
    /\ \A s \in Subs : NoTwice(out[s]) /\ NoTwice(ready[s])
    /\ \A s \in Subs, t \in Transfers :
          /\ ~(InOut(s, t) /\ InReady(s, t))
          /\ Handed(s, t) => sent[t] > 0 /\ ~InQueue(s, t, 0) /\ ~(t \in DOMAIN asm /\ cb[t] = s)

(* Of a message with one listener and without losses the assembler has
   exactly the chunks that were published and are not queued any more. *)
Advanced(s, t) ==
    /\ t \in DOMAIN asm
    /\ \A i \in 0..MessagesOf(t) :
          i \in obj[asm[t]].got <=> i + 1 < sent[t] /\ ~InQueue(s, t, i + 1)

Progress(s, t) ==
    Listeners[t] = {s} /\ sent[t] > 0 /\ ~InQueue(s, t, 0) => InOut(s, t) \/ Advanced(s, t)

ProgressInv == \A t \in Transfers \ broken : \A s \in Subs : Progress(s, t)

ChunkInv ==
    /\ Bookkeeping /\ AliasInv
    /\ SizeInv /\ QueueInv /\ GapInv /\ BuildInv /\ ItemInv /\ OnceInv /\ ProgressInv

-----------------------------------------------------------------------------
(* Chunks and assemblers. *)

(* Byte j of a payload lies in chunk j \div ChunkSize, which is one of its
   chunks. *)
LEMMA ChunkOfByte ==
  ASSUME NEW n \in Nat \ {0}, NEW j \in 0..(n - 1)
  PROVE  /\ (j \div ChunkSize) \in 0..(TotalChunks(n) - 1)
         /\ (j \div ChunkSize) * ChunkSize <= j /\ j < (j \div ChunkSize) * ChunkSize + ChunkSize
<1>. DEFINE c == ChunkSize
            i == j \div c
            m == n + c - 1
<1>1. c \in Nat \ {0} /\ j \in Nat /\ m \in Nat
  BY ChunkingAssumption
<1>2. i \in Nat /\ i * c <= j /\ j < i * c + c
  BY <1>1
<1>3. m \div c \in Nat /\ (m \div c) * c <= m /\ m < (m \div c) * c + c
  BY <1>1
<1>4. i < m \div c
  <2>1. SUFFICES ASSUME m \div c <= i PROVE FALSE
    BY <1>2, <1>3
  <2>2. (m \div c) * c <= i * c
    BY <1>1, <1>2, <1>3, <2>1
  <2>3. i * c \in Nat /\ (m \div c) * c \in Nat
    BY <1>1, <1>2, <1>3
  <2>. QED BY <1>1, <1>2, <1>3, <2>2, <2>3
<1>. QED BY <1>2, <1>3, <1>4 DEF TotalChunks

(* A payload has at least one chunk. *)
LEMMA ChunkCountType ==
  ASSUME NEW n \in Nat \ {0}
  PROVE  TotalChunks(n) \in Nat \ {0}
<1>1. 0 \div ChunkSize \in 0..(TotalChunks(n) - 1)
  BY ChunkOfByte
<1>2. ChunkSize \in Nat \ {0} /\ n + ChunkSize - 1 \in Nat
  BY ChunkingAssumption
<1>3. TotalChunks(n) \in Nat
  BY <1>2 DEF TotalChunks
<1>. QED BY <1>1, <1>3

(* A chunk covers the bytes from its start to its end, and no others. *)
LEMMA ChunkCovers ==
  ASSUME NEW t \in Transfers, size[t] \in Nat \ {0},
         NEW i \in 0..(TotalChunks(size[t]) - 1), NEW j \in 0..(size[t] - 1)
  PROVE  LET b == ChunkBytes(t, i)
             n == Cardinality(DOMAIN b)
         IN  /\ j \div ChunkSize = i => j >= i * ChunkSize /\ j < i * ChunkSize + n
             /\ j >= i * ChunkSize /\ j < i * ChunkSize + n => b[j - i * ChunkSize] = <<t, j>>
<1>. DEFINE c == ChunkSize
            st == i * c
            e == ChunkEnd(size[t], i)
            n == Cardinality(DOMAIN ChunkBytes(t, i))
<1>1. c \in Nat \ {0} /\ i \in Nat /\ st \in Nat /\ j \in Nat
  BY ChunkingAssumption
<1>2. e \in Nat /\ e <= size[t] /\ (j < st + c => j < e)
  BY <1>1 DEF ChunkEnd, ChunkStart
<1>3. DOMAIN ChunkBytes(t, i) = 0..(e - st - 1)
  BY DEF ChunkBytes, ChunkStart
<1>4. n = IF 0 > e - st - 1 THEN 0 ELSE e - st - 1 - 0 + 1
  <2>1. e - st - 1 \in Int /\ 0 \in Int
    BY <1>1, <1>2
  <2>. HIDE DEF e, st
  <2>2. Cardinality(0..(e - st - 1)) = IF 0 > e - st - 1 THEN 0 ELSE e - st - 1 - 0 + 1
    BY <2>1, FS_Interval
  <2>. QED BY <1>3, <2>2
<1>5. ASSUME j \div c = i PROVE j >= st /\ j < st + n
  <2>1. st <= j /\ j < st + c
    BY <1>5, ChunkOfByte
  <2>. HIDE DEF e, st, n
  <2>. QED BY <1>1, <1>2, <1>4, <2>1
<1>6. ASSUME j >= st, j < st + n PROVE ChunkBytes(t, i)[j - st] = <<t, j>>
  <2>1. j - st \in 0..(e - st - 1) /\ st + (j - st) = j
    <3>. HIDE DEF e, st, n
    <3>. QED BY <1>1, <1>2, <1>4, <1>6
  <2>. QED BY <2>1 DEF ChunkBytes, ChunkStart
<1>. QED BY <1>5, <1>6

(* add_chunk() counts the chunk and puts its bytes in their place. *)
LEMMA ChunkAdded ==
  ASSUME NEW t \in Transfers, size[t] \in Nat \ {0}, NEW a, IsAssembler(a), Assembles(a, t),
         NEW i \in 0..(TotalChunks(size[t]) - 1), NEW b, b = AddChunk(a, i, ChunkBytes(t, i))
  PROVE  /\ IsAssembler(b) /\ b.id = t /\ b.total = TotalChunks(size[t])
         /\ b.got = a.got \cup {i} /\ Placed(b, t)
<1>. DEFINE c == ChunkSize
            bytes == ChunkBytes(t, i)
            n == Cardinality(DOMAIN bytes)
            new == [j \in DOMAIN a.buf |-> IF j >= i * c /\ j < i * c + n
                                           THEN bytes[j - i * c] ELSE a.buf[j]]
<1>1. b = [id |-> a.id, got |-> a.got \cup {i}, total |-> a.total, buf |-> new]
  <2>. DEFINE buf0 == a.buf
  <2>1. a = [id |-> a.id, got |-> a.got, total |-> a.total, buf |-> a.buf]
    BY DEF IsAssembler
  <2>2. b = [a EXCEPT !.got = @ \cup {i}, !.buf = new]
    BY DEF AddChunk
  <2>. HIDE DEF new
  <2>. QED BY <2>1, <2>2
<1>2. /\ b.id = t /\ b.total = a.total /\ b.got = a.got \cup {i} /\ b.buf = new
      /\ DOMAIN a.buf = 0..(size[t] - 1)
  <2>. HIDE DEF new
  <2>. QED BY <1>1 DEF Assembles, Placed
<1>3. \A j \in 0..(size[t] - 1) : new[j] = a.buf[j] \/ new[j] = <<t, j>>
  BY <1>2, ChunkCovers
<1>4. \A j \in 0..(size[t] - 1) : j \div c = i => new[j] = <<t, j>>
  BY <1>2, ChunkCovers
<1>5. \A j \in 0..(size[t] - 1) : (j \div ChunkSize) \in b.got => b.buf[j] = <<t, j>>
  <2>. HIDE DEF new
  <2>. QED BY <1>2, <1>3, <1>4 DEF Assembles, Placed
<1>6. IsAssembler(b)
  <2>1. b.got \subseteq Nat /\ b.total \in Nat
    BY <1>2 DEF IsAssembler
  <2>2. \A j \in 0..(size[t] - 1) : new[j] \in Bytes
    <3>1. \A j \in 0..(size[t] - 1) : <<t, j>> \in Bytes
      BY DEF Bytes
    <3>2. \A j \in 0..(size[t] - 1) : a.buf[j] \in Bytes
      BY <1>2 DEF IsAssembler
    <3>. HIDE DEF new
    <3>. QED BY <1>3, <3>1, <3>2
  <2>3. new = [j \in DOMAIN new |-> new[j]] /\ DOMAIN new = DOMAIN a.buf
    OBVIOUS
  <2>. HIDE DEF new
  <2>. QED BY <1>1, <1>2, <2>1, <2>2, <2>3 DEF IsAssembler
<1>. QED BY <1>2, <1>5, <1>6 DEF Assembles, Placed

(* As many chunks as there are: all of them. *)
LEMMA CompleteIsAll ==
  ASSUME NEW n \in Nat \ {0}, NEW got \in SUBSET (0..(TotalChunks(n) - 1))
  PROVE  Cardinality(got) = TotalChunks(n) <=> got = 0..(TotalChunks(n) - 1)
<1>. DEFINE N == TotalChunks(n)
<1>1. N \in Nat \ {0}
  BY ChunkCountType
<1>. HIDE DEF N
<1>2. IsFiniteSet(0..(N - 1)) /\ Cardinality(0..(N - 1)) = N
  <2>1. 0 \in Int /\ N - 1 \in Int
    BY <1>1
  <2>2. IsFiniteSet(0..(N - 1)) /\ Cardinality(0..(N - 1)) = IF 0 > N - 1 THEN 0 ELSE N - 1 - 0 + 1
    BY <2>1, FS_Interval
  <2>. QED BY <1>1, <2>2
<1>3. got \in SUBSET (0..(N - 1))
  BY DEF N
<1>4. Cardinality(0..(N - 1)) = Cardinality(got) => 0..(N - 1) = got
  BY <1>2, <1>3, FS_Subset
<1>5. Cardinality(got) = N <=> got = 0..(N - 1)
  BY <1>2, <1>4
<1>. QED BY <1>5 DEF N

(* get_data() of an assembler with all chunks is the payload. *)
LEMMA CompleteIsPayload ==
  ASSUME NEW t \in Transfers, size[t] \in Nat \ {0}, NEW b, IsAssembler(b),
         b.got = 0..(TotalChunks(size[t]) - 1), Placed(b, t)
  PROVE  b.buf = Payload(t)
<1>1. \A j \in 0..(size[t] - 1) : b.buf[j] = <<t, j>>
  BY ChunkOfByte DEF Placed
<1>. QED BY <1>1 DEF IsAssembler, Payload, Placed

-----------------------------------------------------------------------------
(* The queues of the subscriptions. *)

(* The sizes and the numbers of messages of a transfer. *)
LEMMA SizeFacts ==
  ASSUME SizeInv, NEW t \in Transfers
  PROVE  /\ size[t] \in Nat \ {0} /\ TotalChunks(size[t]) \in Nat \ {0}
         /\ MessagesOf(t) \in Nat \ {0} /\ sent[t] \in Nat /\ sent[t] <= MessagesOf(t)
         /\ IsChunked(t) => MessagesOf(t) = 1 + TotalChunks(size[t])
<1>1. size[t] \in Nat \ {0}
  BY ChunkingAssumption DEF SizeInv
<1>2. TotalChunks(size[t]) \in Nat \ {0}
  BY <1>1, ChunkCountType
<1>. QED BY <1>1, <1>2 DEF SizeInv, MessagesOf

(* The k-th message of a transfer. *)
LEMMA MessageFacts ==
  ASSUME SizeInv, NEW t \in Transfers, NEW k \in Nat, k < MessagesOf(t)
  PROVE  LET m == Message(t, k)
         IN  m \in Messages /\ m.id = t /\ Num(m) = k /\ WellFormed(m)
<1>. DEFINE m == Message(t, k)
<1>0. TotalChunks(size[t]) \in Nat
  BY SizeFacts
<1>1. CASE ~IsChunked(t)
  <2>1. k = 0
    BY <1>1 DEF MessagesOf
  <2>2. m = [kind |-> "plain", id |-> t]
    BY <1>1 DEF Message
  <2>3. m \in Messages /\ m.id = t /\ m.kind = "plain"
    BY <2>2 DEF Messages
  <2>. HIDE DEF m
  <2>4. Num(m) = k /\ WellFormed(m)
    BY <1>1, <2>1, <2>3 DEF Num, WellFormed
  <2>. QED BY <2>3, <2>4 DEF m
<1>2. CASE IsChunked(t) /\ k = 0
  <2>2. m = [kind |-> "header", id |-> t]
    BY <1>2 DEF Message
  <2>3. m \in Messages /\ m.id = t /\ m.kind = "header"
    BY <2>2 DEF Messages
  <2>. HIDE DEF m
  <2>4. Num(m) = k /\ WellFormed(m)
    BY <1>2, <2>3 DEF Num, WellFormed
  <2>. QED BY <2>3, <2>4 DEF m
<1>3. CASE IsChunked(t) /\ k # 0
  <2>1. k - 1 \in Nat /\ k - 1 < TotalChunks(size[t]) /\ k - 1 + 1 = k
    BY <1>0, <1>3 DEF MessagesOf
  <2>2. m = [kind |-> "chunk", id |-> t, index |-> k - 1]
    BY <1>3 DEF Message
  <2>3. m \in Messages /\ m.id = t /\ m.kind = "chunk" /\ m.index = k - 1
    BY <2>1, <2>2 DEF Messages
  <2>. HIDE DEF m
  <2>4. Num(m) = k /\ WellFormed(m)
    BY <1>3, <2>1, <2>3 DEF Num, WellFormed
  <2>. QED BY <2>3, <2>4 DEF m
<1>. QED BY <1>1, <1>2, <1>3

(* A message has a number and belongs to a transfer. *)
LEMMA NumType ==
  ASSUME NEW m \in Messages
  PROVE  Num(m) \in Nat /\ m.id \in Transfers
  BY DEF Messages, Num

(* What Head and Tail make of a sequence. *)
LEMMA TailFacts ==
  ASSUME NEW S, NEW f \in Seq(S), f # <<>>
  PROVE  /\ Head(f) \in S /\ Tail(f) \in Seq(S) /\ Len(f) \in Nat \ {0} /\ Len(Tail(f)) = Len(f) - 1
         /\ Head(f) = f[1] /\ \A p \in 1..Len(Tail(f)) : Tail(f)[p] = f[p + 1]
  OBVIOUS

(* What Append makes of a sequence. *)
LEMMA AppendFacts ==
  ASSUME NEW S, NEW f \in Seq(S), NEW m \in S
  PROVE  /\ Append(f, m) \in Seq(S) /\ Len(f) \in Nat /\ Len(Append(f, m)) = Len(f) + 1
         /\ Append(f, m)[Len(f) + 1] = m /\ \A p \in 1..Len(f) : Append(f, m)[p] = f[p]
  OBVIOUS

(* What is expected of a message depends on how many were published. *)
LEMMA QueueFrame ==
  ASSUME SizeInv, size' = size, q' \in [Subs -> Seq(Messages)],
         sent' \in [Transfers -> Nat], \A t \in Transfers : sent[t] <= sent'[t],
         \A s \in Subs : Ordered(q'[s]) /\ \A p \in 1..Len(q'[s]) : Expected(s, q'[s][p])
  PROVE  QueueInv'
<1>1. SUFFICES ASSUME NEW s \in Subs, NEW p \in 1..Len(q'[s])
               PROVE  Expected(s, q[s][p])'
  BY DEF QueueInv, Ordered, Num
<1>2. q'[s][p] \in Messages /\ Expected(s, q'[s][p])
  OBVIOUS
<1>3. q'[s][p].id \in Transfers /\ Num(q'[s][p]) \in Nat
  BY <1>2, NumType
<1>4. Num(q'[s][p]) < sent'[q'[s][p].id]
  BY <1>2, <1>3 DEF Expected, SizeInv
<1>5. WellFormed(q[s][p])'
  BY <1>2 DEF Expected, WellFormed, IsChunked
<1>. QED BY <1>2, <1>4, <1>5 DEF Expected, Num

(* What the handler of s finds at the head of its queue. *)
Taken(s, m) ==
    /\ m \in Messages /\ Expected(s, m)
    /\ InQueue(s, m.id, Num(m)) /\ \A k \in Nat : InQueue(s, m.id, k) => Num(m) <= k

(* What taking it does to the queues. *)
TakesOut(s, m) ==
    \A r \in Subs, t \in Transfers, k \in Nat :
        InQueue(r, t, k)' <=> InQueue(r, t, k) /\ ~(r = s /\ t = m.id /\ k = Num(m))

(* A handler takes the first message, which has the least number of its transfer. *)
LEMMA ReceiveQueue ==
  ASSUME SizeInv, QueueInv, NEW s \in Subs, NEW kind, Receive(s, kind), UNCHANGED <<size, sent>>
  PROVE  /\ QueueInv'
         /\ Taken(s, Head(q[s])) /\ Head(q[s]).kind = kind /\ TakesOut(s, Head(q[s]))
<1>. DEFINE m == Head(q[s])
            f == q[s]
            g == Tail(q[s])
<1>1. /\ f \in Seq(Messages) /\ f # <<>> /\ q' = [q EXCEPT ![s] = g] /\ m.kind = kind
      /\ q \in [Subs -> Seq(Messages)]
  BY DEF Receive, QueueInv
<1>2. /\ m \in Messages /\ g \in Seq(Messages) /\ Len(f) \in Nat \ {0} /\ Len(g) = Len(f) - 1
      /\ m = f[1] /\ \A p \in 1..Len(g) : g[p] = f[p + 1]
  BY <1>1, TailFacts
<1>3. q' \in [Subs -> Seq(Messages)] /\ q'[s] = g /\ \A r \in Subs \ {s} : q'[r] = q[r]
  BY <1>1, <1>2
<1>4. \A p \in 1..Len(f) : Num(f[p]) \in Nat /\ f[p].id \in Transfers
  BY <1>1, NumType
<1>. HIDE DEF m, f, g
<1>5. \A p \in 1..Len(f) : p # 1 /\ f[p].id = m.id => Num(m) < Num(f[p])
  <2>1. 1 \in 1..Len(f) /\ \A p \in 1..Len(f) : p # 1 => 1 < p
    BY <1>2
  <2>. QED BY <1>2, <2>1 DEF QueueInv, Ordered, f
<1>6. \A p \in 1..Len(g) : p + 1 \in 1..Len(f) /\ p + 1 # 1
  BY <1>2
<1>7. \A p \in 1..Len(f) : p # 1 => p - 1 \in 1..Len(g) /\ g[p - 1] = f[p]
  BY <1>2
<1>8. Taken(s, m)
  <2>1. 1 \in 1..Len(f)
    BY <1>2
  <2>2. Expected(s, m)
    BY <1>2, <2>1 DEF QueueInv, f
  <2>3. InQueue(s, m.id, Num(m))
    BY <1>2, <2>1 DEF InQueue, f
  <2>4. ASSUME NEW k \in Nat, InQueue(s, m.id, k) PROVE Num(m) <= k
    <3>1. PICK p \in 1..Len(f) : f[p].id = m.id /\ Num(f[p]) = k
      BY <2>4 DEF InQueue, f
    <3>2. CASE p = 1
      BY <1>2, <3>1, <3>2
    <3>3. CASE p # 1
      <4>1. Num(m) < k /\ Num(m) \in Nat
        BY <1>2, <1>5, <3>1, <3>3, NumType
      <4>. QED BY <4>1
    <3>. QED BY <3>2, <3>3
  <2>. QED BY <1>2, <2>2, <2>3, <2>4 DEF Taken
<1>9. TakesOut(s, m)
  <2>1. SUFFICES ASSUME NEW r \in Subs, NEW t \in Transfers, NEW k \in Nat
                 PROVE  InQueue(r, t, k)' <=> InQueue(r, t, k) /\ ~(r = s /\ t = m.id /\ k = Num(m))
    BY DEF TakesOut
  <2>2. CASE r # s
    <3>1. q'[r] = q[r]
      BY <1>3, <2>2
    <3>. QED BY <2>2, <3>1 DEF InQueue
  <2>3. CASE r = s
    <3>1. InQueue(r, t, k)' <=> \E p \in 1..Len(g) : g[p].id = t /\ Num(g[p]) = k
      BY <1>3, <2>3 DEF InQueue
    <3>2. InQueue(r, t, k) <=> \E p \in 1..Len(f) : f[p].id = t /\ Num(f[p]) = k
      BY <2>3 DEF InQueue, f
    <3>3. ASSUME NEW p \in 1..Len(g), g[p].id = t, Num(g[p]) = k
          PROVE  InQueue(r, t, k) /\ ~(t = m.id /\ k = Num(m))
      <4>1. p + 1 \in 1..Len(f) /\ p + 1 # 1 /\ g[p] = f[p + 1]
        BY <1>2, <1>6
      <4>2. t = m.id => Num(m) < k
        BY <1>5, <3>3, <4>1
      <4>3. Num(m) \in Nat
        BY <1>2, NumType
      <4>. QED BY <3>2, <3>3, <4>1, <4>2, <4>3
    <3>4. ASSUME NEW p \in 1..Len(f), f[p].id = t, Num(f[p]) = k, ~(t = m.id /\ k = Num(m))
          PROVE  InQueue(r, t, k)'
      <4>1. p # 1
        BY <1>2, <3>4
      <4>. QED BY <1>7, <3>1, <3>4, <4>1
    <3>. QED BY <2>3, <3>1, <3>2, <3>3, <3>4
  <2>. QED BY <2>2, <2>3
<1>10. QueueInv'
  <2>1. Ordered(g)
    <3>1. SUFFICES ASSUME NEW p \in 1..Len(g), NEW r \in 1..Len(g), p < r, g[p].id = g[r].id
                   PROVE  Num(g[p]) < Num(g[r])
      BY DEF Ordered
    <3>2. /\ p + 1 \in 1..Len(f) /\ r + 1 \in 1..Len(f) /\ p + 1 < r + 1
          /\ g[p] = f[p + 1] /\ g[r] = f[r + 1]
      BY <1>2, <1>6, <3>1
    <3>3. Ordered(f)
      BY DEF QueueInv, f
    <3>. QED BY <3>1, <3>2, <3>3 DEF Ordered
  <2>2. \A p \in 1..Len(g) : Expected(s, g[p])
    BY <1>2, <1>6 DEF QueueInv, f
  <2>3. \A r \in Subs : Ordered(q'[r]) /\ \A p \in 1..Len(q'[r]) : Expected(r, q'[r][p])
    <3>1. SUFFICES ASSUME NEW r \in Subs
                   PROVE  Ordered(q'[r]) /\ \A p \in 1..Len(q'[r]) : Expected(r, q'[r][p])
      OBVIOUS
    <3>2. CASE r = s
      BY <1>3, <2>1, <2>2, <3>2
    <3>3. CASE r # s
      BY <1>3, <3>3 DEF QueueInv
    <3>. QED BY <3>2, <3>3
  <2>4. sent' \in [Transfers -> Nat] /\ \A t \in Transfers : sent[t] <= sent'[t]
    BY DEF SizeInv
  <2>. QED BY <1>3, <2>3, <2>4, QueueFrame
<1>. QED BY <1>1, <1>8, <1>9, <1>10 DEF m

(* publish() adds the next message at every listener, or at none. *)
Adds(t) ==
    \/ /\ t \in broken' /\ broken \subseteq broken'
       /\ \A r \in Subs, u \in Transfers, k \in Nat : InQueue(r, u, k)' <=> InQueue(r, u, k)
    \/ /\ broken' = broken
       /\ \A r \in Subs, u \in Transfers, k \in Nat :
             InQueue(r, u, k)' <=> InQueue(r, u, k) \/ (r \in Listeners[t] /\ u = t /\ k = sent[t])

(* publish() keeps the queues in order. *)
LEMMA PublishQueue ==
  ASSUME SizeInv, QueueInv, NEW t \in Transfers, Publish(t)
  PROVE  /\ SizeInv' /\ QueueInv' /\ Adds(t)
         /\ sent'[t] = sent[t] + 1 /\ \A u \in Transfers \ {t} : sent'[u] = sent[u]
<1>0. /\ sent[t] < MessagesOf(t) /\ sent' = [sent EXCEPT ![t] = @ + 1] /\ size' = size
      /\ \/ q' = Delivered(t) /\ broken' = broken
         \/ q' = q /\ broken' = broken \cup {t}
  BY DEF Publish
<1>1. /\ sent' \in [Transfers -> Nat] /\ sent'[t] = sent[t] + 1
      /\ (\A u \in Transfers \ {t} : sent'[u] = sent[u]) /\ \A u \in Transfers : sent[u] <= sent'[u]
  BY <1>0 DEF SizeInv
<1>2. SizeInv'
  <2>1. \A u \in Transfers : MessagesOf(u)' = MessagesOf(u)
    BY <1>0 DEF MessagesOf, IsChunked
  <2>2. \A u \in Transfers : sent'[u] <= MessagesOf(u)
    BY <1>0, <1>1, SizeFacts
  <2>3. broken' \subseteq Transfers
    BY <1>0 DEF SizeInv
  <2>. QED BY <1>0, <1>1, <2>1, <2>2, <2>3 DEF SizeInv
<1>3. CASE q' = q /\ broken' = broken \cup {t}
  <2>1. QueueInv'
    BY <1>0, <1>1, <1>3, QueueFrame DEF QueueInv
  <2>2. \A r \in Subs, u \in Transfers, k \in Nat : InQueue(r, u, k)' <=> InQueue(r, u, k)
    BY <1>3 DEF InQueue
  <2>3. Adds(t)
    BY <1>3, <2>2 DEF Adds
  <2>. QED BY <1>1, <1>2, <2>1, <2>3
<1>4. CASE q' = Delivered(t) /\ broken' = broken
  <2>. DEFINE m == Message(t, sent[t])
  <2>1. m \in Messages /\ m.id = t /\ Num(m) = sent[t] /\ WellFormed(m) /\ sent[t] \in Nat
    BY <1>0, SizeFacts, MessageFacts
  <2>. HIDE DEF m
  <2>2. ASSUME NEW r \in Subs \ Listeners[t]
        PROVE  q'[r] = q[r]
    BY <1>4 DEF Delivered
  <2>3. ASSUME NEW r \in Subs, r \in Listeners[t]
        PROVE  /\ q'[r] \in Seq(Messages) /\ Len(q[r]) \in Nat /\ Len(q'[r]) = Len(q[r]) + 1
               /\ q'[r][Len(q[r]) + 1] = m /\ \A p \in 1..Len(q[r]) : q'[r][p] = q[r][p]
    <3>1. q'[r] = Append(q[r], m) /\ q[r] \in Seq(Messages)
      BY <1>4, <2>3 DEF Delivered, QueueInv, m
    <3>. QED BY <2>1, <3>1, AppendFacts
  <2>4. q' \in [Subs -> Seq(Messages)]
    <3>1. \A r \in Subs : q'[r] \in Seq(Messages)
      BY <2>2, <2>3 DEF QueueInv
    <3>2. q' = [r \in Subs |-> q'[r]]
      BY <1>4 DEF Delivered
    <3>. QED BY <3>1, <3>2
  <2>5. \A r \in Subs : \A p \in 1..Len(q[r]) : Num(q[r][p]) \in Nat /\ Num(q[r][p]) < sent[q[r][p].id]
    BY NumType DEF QueueInv, Expected
  <2>6. ASSUME NEW r \in Subs
        PROVE  Ordered(q'[r])
    <3>1. CASE r \notin Listeners[t]
      BY <2>2, <3>1 DEF QueueInv
    <3>2. CASE r \in Listeners[t]
      <4>1. SUFFICES ASSUME NEW p \in 1..Len(q'[r]), NEW x \in 1..Len(q'[r]), p < x, q'[r][p].id = q'[r][x].id
                     PROVE  Num(q'[r][p]) < Num(q'[r][x])
        BY DEF Ordered
      <4>2. p \in 1..Len(q[r]) /\ (x \in 1..Len(q[r]) \/ x = Len(q[r]) + 1)
        BY <2>3, <3>2, <4>1
      <4>3. q'[r][p] = q[r][p]
        BY <2>3, <3>2, <4>2
      <4>4. CASE x \in 1..Len(q[r])
        BY <2>3, <3>2, <4>1, <4>2, <4>3, <4>4 DEF QueueInv, Ordered
      <4>5. CASE x = Len(q[r]) + 1
        <5>1. q'[r][x] = m /\ q[r][p].id = t
          BY <2>1, <2>3, <3>2, <4>1, <4>3, <4>5
        <5>2. Num(q[r][p]) < sent[t]
          BY <2>5, <4>2, <5>1
        <5>. QED BY <2>1, <4>3, <5>1, <5>2
      <4>. QED BY <4>2, <4>4, <4>5
    <3>. QED BY <3>1, <3>2
  <2>7. ASSUME NEW r \in Subs, NEW p \in 1..Len(q'[r])
        PROVE  Expected(r, q[r][p])'
    <3>1. \A n \in Messages : WellFormed(n)' <=> WellFormed(n)
      BY <1>0 DEF WellFormed, IsChunked
    <3>2. ASSUME NEW x \in 1..Len(q[r]), q'[r][p] = q[r][x]
          PROVE  Expected(r, q[r][p])'
      <4>1. q[r][x] \in Messages /\ Expected(r, q[r][x])
        BY DEF QueueInv
      <4>2. q[r][x].id \in Transfers /\ Num(q[r][x]) < sent'[q[r][x].id]
        BY <1>1, <4>1, NumType DEF Expected, SizeInv
      <4>. QED BY <1>0, <3>2, <4>1, <4>2 DEF Expected, WellFormed, IsChunked, Num
    <3>3. CASE r \notin Listeners[t]
      BY <2>2, <3>2, <3>3
    <3>4. CASE r \in Listeners[t] /\ p \in 1..Len(q[r])
      BY <2>3, <3>2, <3>4
    <3>5. CASE r \in Listeners[t] /\ p = Len(q[r]) + 1
      <4>1. q'[r][p] = m
        BY <2>3, <3>5
      <4>2. Num(m) < sent'[m.id]
        BY <1>1, <2>1
      <4>. QED BY <1>0, <2>1, <3>5, <4>1, <4>2 DEF Expected, WellFormed, IsChunked, Num
    <3>6. r \in Listeners[t] => p \in 1..Len(q[r]) \/ p = Len(q[r]) + 1
      BY <2>3
    <3>. QED BY <3>3, <3>4, <3>5, <3>6
  <2>8. QueueInv'
    BY <2>4, <2>6, <2>7 DEF QueueInv, Ordered, Num
  <2>9. ASSUME NEW r \in Subs, NEW u \in Transfers, NEW k \in Nat
        PROVE  InQueue(r, u, k)' <=> InQueue(r, u, k) \/ (r \in Listeners[t] /\ u = t /\ k = sent[t])
    <3>1. CASE r \notin Listeners[t]
      BY <2>2, <3>1 DEF InQueue
    <3>2. CASE r \in Listeners[t]
      <4>1. InQueue(r, u, k)' => InQueue(r, u, k) \/ (u = t /\ k = sent[t])
        <5>1. SUFFICES ASSUME NEW p \in 1..Len(q'[r]), q'[r][p].id = u, Num(q'[r][p]) = k
                       PROVE  InQueue(r, u, k) \/ (u = t /\ k = sent[t])
          BY DEF InQueue
        <5>2. p \in 1..Len(q[r]) \/ p = Len(q[r]) + 1
          BY <2>3, <3>2
        <5>. QED BY <2>1, <2>3, <3>2, <5>1, <5>2 DEF InQueue
      <4>2. InQueue(r, u, k) => InQueue(r, u, k)'
        <5>1. \A p \in 1..Len(q[r]) : p \in 1..Len(q'[r]) /\ q'[r][p] = q[r][p]
          BY <2>3, <3>2
        <5>. QED BY <5>1 DEF InQueue
      <4>3. u = t /\ k = sent[t] => InQueue(r, u, k)'
        <5>1. Len(q[r]) + 1 \in 1..Len(q'[r]) /\ q'[r][Len(q[r]) + 1] = m
          BY <2>3, <3>2
        <5>. QED BY <2>1, <5>1 DEF InQueue
      <4>. QED BY <3>2, <4>1, <4>2, <4>3
    <3>. QED BY <3>1, <3>2
  <2>10. Adds(t)
    BY <1>4, <2>9 DEF Adds
  <2>. QED BY <1>1, <1>2, <2>8, <2>10
<1>. QED BY <1>0, <1>3, <1>4

-----------------------------------------------------------------------------
(* Handing over. *)

(* Messages handed over one after the other. *)
LEMMA ConcatFacts ==
  ASSUME NEW f \in Seq(Items), NEW g \in Seq(Items)
  PROVE  /\ f \o g \in Seq(Items)
         /\ \A t \in Transfers : Has(f \o g, t) <=> Has(f, t) \/ Has(g, t)
         /\ NoTwice(f) /\ NoTwice(g) /\ (\A t \in Transfers : ~(Has(f, t) /\ Has(g, t))) => NoTwice(f \o g)
<1>0. \A x \in Items : x.id \in Transfers
  BY DEF Items, Item
<1>1. /\ f \o g \in Seq(Items) /\ Len(f) \in Nat /\ Len(g) \in Nat /\ Len(f \o g) = Len(f) + Len(g)
      /\ \A k \in 1..Len(f) : (f \o g)[k] = f[k]
      /\ \A k \in 1..Len(g) : (f \o g)[Len(f) + k] = g[k]
  OBVIOUS
<1>. DEFINE h == f \o g
<1>2. \A k \in 1..Len(h) : k \in 1..Len(f) \/ (k - Len(f) \in 1..Len(g) /\ h[k] = g[k - Len(f)])
  <2>1. SUFFICES ASSUME NEW k \in 1..Len(h), k \notin 1..Len(f)
                 PROVE  k - Len(f) \in 1..Len(g) /\ h[k] = g[k - Len(f)]
    OBVIOUS
  <2>2. k - Len(f) \in 1..Len(g) /\ Len(f) + (k - Len(f)) = k
    BY <1>1, <2>1
  <2>. QED BY <1>1, <2>2
<1>3. (\A k \in 1..Len(f) : k \in 1..Len(h)) /\ \A k \in 1..Len(g) : Len(f) + k \in 1..Len(h)
  BY <1>1
<1>. HIDE DEF h
<1>4. ASSUME NEW t \in Transfers
      PROVE  Has(h, t) <=> Has(f, t) \/ Has(g, t)
  <2>1. Has(h, t) => Has(f, t) \/ Has(g, t)
    BY <1>1, <1>2 DEF Has, h
  <2>2. Has(f, t) => Has(h, t)
    BY <1>1, <1>3 DEF Has, h
  <2>3. Has(g, t) => Has(h, t)
    BY <1>1, <1>3 DEF Has, h
  <2>. QED BY <2>1, <2>2, <2>3
<1>5. ASSUME NoTwice(f), NoTwice(g), \A t \in Transfers : ~(Has(f, t) /\ Has(g, t))
      PROVE  NoTwice(h)
  <2>1. SUFFICES ASSUME NEW k \in 1..Len(h), NEW l \in 1..Len(h), h[k].id = h[l].id PROVE k = l
    BY DEF NoTwice
  <2>2. \A x \in 1..Len(f), y \in 1..Len(g) : f[x].id # g[y].id
    BY <1>0, <1>5 DEF Has
  <2>3. CASE k \in 1..Len(f) /\ l \in 1..Len(f)
    BY <1>1, <1>5, <2>1, <2>3 DEF NoTwice, h
  <2>4. CASE k \in 1..Len(f) /\ l \notin 1..Len(f)
    BY <1>1, <1>2, <2>1, <2>2, <2>4 DEF h
  <2>5. CASE k \notin 1..Len(f) /\ l \in 1..Len(f)
    BY <1>1, <1>2, <2>1, <2>2, <2>5 DEF h
  <2>6. CASE k \notin 1..Len(f) /\ l \notin 1..Len(f)
    <3>1. /\ k - Len(f) \in 1..Len(g) /\ h[k] = g[k - Len(f)]
          /\ l - Len(f) \in 1..Len(g) /\ h[l] = g[l - Len(f)]
      BY <1>2, <2>6
    <3>2. g[k - Len(f)].id = g[l - Len(f)].id
      BY <2>1, <3>1
    <3>3. k - Len(f) = l - Len(f)
      BY <1>5, <3>1, <3>2 DEF NoTwice
    <3>. QED BY <1>1, <3>3
  <2>. QED BY <2>3, <2>4, <2>5, <2>6
<1>. QED BY <1>1, <1>4, <1>5 DEF h

(* A single message handed over. *)
LEMMA SingleItem ==
  ASSUME NEW t \in Transfers
  PROVE  /\ <<Item(t)>> \in Seq(Items) /\ NoTwice(<<Item(t)>>)
         /\ \A u \in Transfers : Has(<<Item(t)>>, u) <=> u = t
<1>1. Item(t) \in Items /\ Item(t).id = t
  BY DEF Items, Item
<1>2. <<Item(t)>> \in Seq(Items) /\ Len(<<Item(t)>>) = 1 /\ <<Item(t)>>[1] = Item(t)
  BY <1>1
<1>. QED BY <1>1, <1>2 DEF NoTwice, Has

(* Nothing handed over. *)
LEMMA NoItem ==
  <<>> \in Seq(Items) /\ NoTwice(<<>>) /\ \A t \in Transfers : ~Has(<<>>, t)
  BY DEF NoTwice, Has

(* One subscription's part: what its handler got and what waits for it, after
   a step that handed it the messages E. *)
Hands(s, E, f, g) ==
    /\ f \in Seq(Items) /\ g \in Seq(Items) /\ NoTwice(f) /\ NoTwice(g)
    /\ \A u \in Transfers :
          /\ ~(Has(f, u) /\ Has(g, u))
          /\ Has(f, u) \/ Has(g, u) <=> Handed(s, u) \/ u \in E
          /\ InOut(s, u) => Has(f, u)

(* A step that hands message t to the subscriptions in R, once. *)
Delivers(R, t) ==
    /\ out' \in [Subs -> Seq(Items)] /\ ready' \in [Subs -> Seq(Items)]
    /\ \A r \in Subs : Hands(r, {u \in {t} : r \in R}, out'[r], ready'[r])

(* A step that leaves a subscription alone. *)
LEMMA HandsNothing ==
  ASSUME ItemInv, OnceInv, NEW s \in Subs
  PROVE  Hands(s, {}, out[s], ready[s])
  BY DEF Hands, Handed, InOut, InReady, ItemInv, OnceInv

(* A step that drains what is ready. *)
LEMMA HandsReady ==
  ASSUME ItemInv, OnceInv, NEW s \in Subs
  PROVE  Hands(s, {}, out[s] \o ready[s], <<>>)
<1>1. out[s] \in Seq(Items) /\ ready[s] \in Seq(Items)
  BY DEF ItemInv
<1>2. NoTwice(out[s]) /\ NoTwice(ready[s]) /\ \A t \in Transfers : ~(Has(out[s], t) /\ Has(ready[s], t))
  BY DEF OnceInv, InOut, InReady
<1>. QED BY <1>1, <1>2, ConcatFacts, NoItem DEF Hands, Handed, InOut, InReady

(* A message that was not handed over yet comes last, at the handler or in
   the queue of what is ready. *)
LEMMA HandsMore ==
  ASSUME NEW s \in Subs, NEW t \in Transfers, NEW f, NEW g, Hands(s, {}, f, g), ~Handed(s, t)
  PROVE  Hands(s, {t}, f \o <<Item(t)>>, g) /\ Hands(s, {t}, f, g \o <<Item(t)>>)
<1>1. /\ f \in Seq(Items) /\ g \in Seq(Items) /\ NoTwice(f) /\ NoTwice(g)
      /\ ~Has(f, t) /\ ~Has(g, t)
  BY DEF Hands
<1>2. f \o <<Item(t)>> \in Seq(Items) /\ g \o <<Item(t)>> \in Seq(Items)
  BY <1>1, ConcatFacts, SingleItem
<1>3. \A u \in Transfers : /\ Has(f \o <<Item(t)>>, u) <=> Has(f, u) \/ u = t
                           /\ Has(g \o <<Item(t)>>, u) <=> Has(g, u) \/ u = t
  BY <1>1, ConcatFacts, SingleItem
<1>4. NoTwice(f \o <<Item(t)>>) /\ NoTwice(g \o <<Item(t)>>)
  BY <1>1, ConcatFacts, SingleItem
<1>. QED BY <1>1, <1>2, <1>3, <1>4 DEF Hands

(* The cases in which handlers are called. *)
LEMMA KeepDelivers ==
  ASSUME ItemInv, OnceInv, NEW t \in Transfers, UNCHANGED <<out, ready>>
  PROVE  Delivers({}, t)
<1>1. \A r \in Subs : {u \in {t} : r \in {}} = {}
  OBVIOUS
<1>. QED BY <1>1, HandsNothing DEF Delivers, ItemInv

(* HandlePlain calls the handler. *)
LEMMA PlainDelivers ==
  ASSUME ItemInv, OnceInv, NEW s \in Subs, NEW t \in Transfers, ~Handed(s, t),
         out' = [out EXCEPT ![s] = Append(@, Item(t))], UNCHANGED ready
  PROVE  Delivers({s}, t) /\ InOut(s, t)'
<1>0. out \in [Subs -> Seq(Items)] /\ ready \in [Subs -> Seq(Items)]
  BY DEF ItemInv
<1>1. Append(out[s], Item(t)) = out[s] \o <<Item(t)>>
  BY <1>0 DEF Items
<1>2. Hands(s, {t}, Append(out[s], Item(t)), ready[s])
  BY <1>1, HandsNothing, HandsMore
<1>3. out'[s] = Append(out[s], Item(t)) /\ \A r \in Subs \ {s} : out'[r] = out[r]
  BY <1>0
<1>4. out' \in [Subs -> Seq(Items)]
  BY <1>0, <1>2 DEF Hands
<1>5. ASSUME NEW r \in Subs
      PROVE  Hands(r, {u \in {t} : r \in {s}}, out'[r], ready'[r])
  <2>1. CASE r = s
    <3>1. {u \in {t} : r \in {s}} = {t}
      BY <2>1
    <3>. QED BY <1>2, <1>3, <2>1, <3>1
  <2>2. CASE r # s
    <3>1. {u \in {t} : r \in {s}} = {}
      BY <2>2
    <3>. QED BY <1>3, <2>2, <3>1, HandsNothing
  <2>. QED BY <2>1, <2>2
<1>6. InOut(s, t)'
  <2>1. Has(out'[s], t)
    <3>1. <<Item(t)>> \in Seq(Items) /\ Has(<<Item(t)>>, t) /\ out[s] \in Seq(Items)
      BY <1>0, SingleItem
    <3>2. Has(out[s] \o <<Item(t)>>, t)
      BY <3>1, ConcatFacts
    <3>. QED BY <1>1, <1>3, <3>2
  <2>. QED BY <2>1 DEF InOut, Has
<1>. QED BY <1>0, <1>4, <1>5, <1>6 DEF Delivers

(* The drain loop calls the handler with what is ready and with a message
   that was just completed, if it is for the same subscription. *)
LEMMA DrainDelivers ==
  ASSUME ItemInv, OnceInv, NEW s \in Subs, NEW t \in Transfers, NEW item,
         item = <<>> \/ (item = <<Item(t)>> /\ ~Handed(s, t)), Drain(s, item)
  PROVE  /\ item = <<>> => Delivers({}, t)
         /\ item = <<Item(t)>> => Delivers({s}, t) /\ InOut(s, t)'
<1>0. out \in [Subs -> Seq(Items)] /\ ready \in [Subs -> Seq(Items)]
  BY DEF ItemInv
<1>1. out' = [out EXCEPT ![s] = @ \o ready[s] \o item] /\ ready' = [ready EXCEPT ![s] = <<>>]
  BY DEF Drain
<1>2. /\ out'[s] = out[s] \o ready[s] \o item /\ \A r \in Subs \ {s} : out'[r] = out[r]
      /\ ready'[s] = <<>> /\ \A r \in Subs \ {s} : ready'[r] = ready[r]
  BY <1>0, <1>1
<1>3. out[s] \o ready[s] \in Seq(Items)
  BY <1>0, ConcatFacts
<1>4. CASE item = <<>>
  <2>1. out'[s] = out[s] \o ready[s]
    BY <1>2, <1>3, <1>4
  <2>2. ASSUME NEW r \in Subs
        PROVE  Hands(r, {u \in {t} : r \in {}}, out'[r], ready'[r])
    <3>1. {u \in {t} : r \in {}} = {}
      OBVIOUS
    <3>2. CASE r = s
      BY <1>2, <2>1, <3>1, <3>2, HandsReady
    <3>3. CASE r # s
      BY <1>2, <3>1, <3>3, HandsNothing
    <3>. QED BY <3>2, <3>3
  <2>3. out' \in [Subs -> Seq(Items)] /\ ready' \in [Subs -> Seq(Items)]
    BY <1>0, <1>1, <1>3, <1>4, <2>1, NoItem
  <2>4. item # <<Item(t)>>
    BY <1>4
  <2>. QED BY <2>2, <2>3, <2>4 DEF Delivers
<1>5. CASE item = <<Item(t)>> /\ ~Handed(s, t)
  <2>1. Hands(s, {t}, out'[s], ready'[s])
    BY <1>2, <1>5, HandsReady, HandsMore
  <2>2. ASSUME NEW r \in Subs
        PROVE  Hands(r, {u \in {t} : r \in {s}}, out'[r], ready'[r])
    <3>1. CASE r = s
      <4>1. {u \in {t} : r \in {s}} = {t}
        BY <3>1
      <4>. QED BY <2>1, <3>1, <4>1
    <3>2. CASE r # s
      <4>1. {u \in {t} : r \in {s}} = {}
        BY <3>2
      <4>. QED BY <1>2, <3>2, <4>1, HandsNothing
    <3>. QED BY <3>1, <3>2
  <2>3. out' \in [Subs -> Seq(Items)] /\ ready' \in [Subs -> Seq(Items)]
    <3>1. out'[s] \in Seq(Items) /\ ready'[s] \in Seq(Items)
      BY <2>1 DEF Hands
    <3>. QED BY <1>0, <1>1, <1>2, <3>1
  <2>4. InOut(s, t)'
    <3>1. Has(out'[s], t)
      <4>1. <<Item(t)>> \in Seq(Items) /\ Has(<<Item(t)>>, t)
        BY SingleItem
      <4>2. Has((out[s] \o ready[s]) \o <<Item(t)>>, t)
        BY <1>3, <4>1, ConcatFacts
      <4>. QED BY <1>2, <1>5, <4>2
    <3>. QED BY <3>1 DEF InOut, Has
  <2>5. item # <<>>
    BY <1>5
  <2>. QED BY <2>2, <2>3, <2>4, <2>5 DEF Delivers
<1>. QED BY <1>4, <1>5

(* A message that was completed for another subscription waits there. *)
LEMMA PassDelivers ==
  ASSUME ItemInv, OnceInv, NEW s \in Subs, NEW x \in Subs, x # s, NEW t \in Transfers, ~Handed(x, t),
         out' = [out EXCEPT ![s] = @ \o ready[s]],
         ready' = [ready EXCEPT ![s] = <<>>, ![x] = @ \o <<Item(t)>>]
  PROVE  Delivers({x}, t)
<1>0. out \in [Subs -> Seq(Items)] /\ ready \in [Subs -> Seq(Items)]
  BY DEF ItemInv
<1>1. /\ out'[s] = out[s] \o ready[s] /\ \A r \in Subs \ {s} : out'[r] = out[r]
      /\ ready'[s] = <<>> /\ ready'[x] = ready[x] \o <<Item(t)>>
      /\ \A r \in Subs \ {s, x} : ready'[r] = ready[r]
  BY <1>0
<1>2. Hands(s, {}, out'[s], ready'[s])
  BY <1>1, HandsReady
<1>3. Hands(x, {t}, out'[x], ready'[x])
  <2>1. Hands(x, {t}, out[x], ready[x] \o <<Item(t)>>)
    BY HandsNothing, HandsMore
  <2>2. out'[x] = out[x] /\ ready'[x] = ready[x] \o <<Item(t)>>
    BY <1>1
  <2>. QED BY <2>1, <2>2
<1>4. ASSUME NEW r \in Subs
      PROVE  Hands(r, {u \in {t} : r \in {x}}, out'[r], ready'[r])
  <2>1. CASE r = x
    <3>1. {u \in {t} : r \in {x}} = {t}
      BY <2>1
    <3>. QED BY <1>3, <2>1, <3>1
  <2>2. CASE r # x
    <3>1. {u \in {t} : r \in {x}} = {}
      BY <2>2
    <3>. QED BY <1>1, <1>2, <2>2, <3>1, HandsNothing
  <2>. QED BY <2>1, <2>2
<1>5. out' \in [Subs -> Seq(Items)] /\ ready' \in [Subs -> Seq(Items)]
  <2>1. out'[s] \in Seq(Items) /\ ready'[s] \in Seq(Items) /\ ready'[x] \in Seq(Items)
    BY <1>2, <1>3 DEF Hands
  <2>. QED BY <1>0, <1>1, <2>1
<1>. QED BY <1>4, <1>5 DEF Delivers

-----------------------------------------------------------------------------
(* What a step leaves as it was. *)

(* An assembler that a step does not touch. *)
LEMMA BuiltKept ==
  ASSUME SizeInv, BuildInv, size' = size, NEW u \in DOMAIN asm, u \in DOMAIN asm',
         asm'[u] = asm[u], obj'[asm[u]] = obj[asm[u]], cb'[u] = cb[u], sent'[u] \in Nat, sent[u] <= sent'[u],
         InQueue(cb[u], u, 0)' => InQueue(cb[u], u, 0)
  PROVE  Built(u)'
<1>1. Built(u)
  BY DEF BuildInv
<1>2. Assembles(obj[asm[u]], u)'
  BY <1>1 DEF Built, Assembles, Placed
<1>3. sent'[u] > 0 /\ IsChunked(u)'
  BY <1>1 DEF Built, IsChunked, SizeInv
<1>4. ~InQueue(cb[u], u, 0)'
  BY <1>1 DEF Built
<1>5. ~(InQueue(cb[u], u, 0))'
  BY <1>4
<1>. QED BY <1>1, <1>2, <1>3, <1>4 DEF Built, InQueue

(* A message that a step does not touch. *)
LEMMA ProgressKept ==
  ASSUME ProgressInv, size' = size, NEW u \in Transfers \ broken, NEW s \in Subs, sent'[u] = sent[u],
         MessagesOf(u) \in Nat,
         \A k \in Nat : InQueue(s, u, k)' <=> InQueue(s, u, k),
         InOut(s, u) => InOut(s, u)',
         u \in DOMAIN asm => u \in DOMAIN asm' /\ asm'[u] = asm[u] /\ obj'[asm[u]].got = obj[asm[u]].got
  PROVE  Progress(s, u)'
<1>1. Progress(s, u)
  BY DEF ProgressInv
<1>2. MessagesOf(u)' = MessagesOf(u)
  BY DEF MessagesOf, IsChunked
<1>3. InQueue(s, u, 0)' <=> InQueue(s, u, 0)
  OBVIOUS
<1>4. \A i \in 0..MessagesOf(u) : InQueue(s, u, i + 1)' <=> InQueue(s, u, i + 1)
  OBVIOUS
<1>5. Advanced(s, u) => Advanced(s, u)'
  BY <1>2, <1>4 DEF Advanced
<1>. QED BY <1>1, <1>3, <1>5 DEF Progress

(* Handing over once what was not handed over before. *)
LEMMA OnceAfter ==
  ASSUME OnceInv, NEW R, NEW t \in Transfers, Delivers(R, t), size' = size,
         \A r \in Subs, u \in Transfers :
             Handed(r, u) \/ (u = t /\ r \in R) =>
                 sent'[u] > 0 /\ ~InQueue(r, u, 0)' /\ ~(u \in DOMAIN asm' /\ cb'[u] = r)
  PROVE  ItemInv' /\ OnceInv' /\ \A r \in Subs, u \in Transfers : InOut(r, u) => InOut(r, u)'
<1>1. Items' = Items
  BY DEF Items, Item, Payload
<1>2. ItemInv'
  BY <1>1 DEF Delivers, ItemInv
<1>3. ASSUME NEW r \in Subs
      PROVE  /\ NoTwice(out'[r]) /\ NoTwice(ready'[r])
             /\ \A u \in Transfers : /\ ~(Has(out'[r], u) /\ Has(ready'[r], u))
                                     /\ Has(out'[r], u) \/ Has(ready'[r], u) => Handed(r, u) \/ (u = t /\ r \in R)
                                     /\ InOut(r, u) => Has(out'[r], u)
  <2>1. Hands(r, {u \in {t} : r \in R}, out'[r], ready'[r])
    BY DEF Delivers
  <2>. QED BY <2>1 DEF Hands
<1>4. \A r \in Subs, u \in Transfers : /\ InOut(r, u)' <=> Has(out'[r], u)
                                       /\ InReady(r, u)' <=> Has(ready'[r], u)
                                       /\ Handed(r, u)' <=> Has(out'[r], u) \/ Has(ready'[r], u)
  BY DEF Handed, InOut, InReady, Has
<1>5. OnceInv'
  <2>1. \A r \in Subs : NoTwice(out[r])' /\ NoTwice(ready[r])'
    BY <1>3 DEF NoTwice
  <2>2. ASSUME NEW r \in Subs, NEW u \in Transfers
        PROVE  /\ ~(InOut(r, u)' /\ InReady(r, u)')
               /\ Handed(r, u)' => sent'[u] > 0 /\ ~InQueue(r, u, 0)' /\ ~(u \in DOMAIN asm' /\ cb'[u] = r)
    BY <1>3, <1>4
  <2>. QED BY <2>1, <2>2 DEF OnceInv
<1>. QED BY <1>2, <1>3, <1>4, <1>5

(* Taking the first message of a queue leaves no gap. *)
LEMMA TakeGap ==
  ASSUME SizeInv, QueueInv, GapInv, NEW s \in Subs, NEW m, Taken(s, m), TakesOut(s, m),
         sent' = sent, broken \subseteq broken'
  PROVE  GapInv'
<1>1. SUFFICES ASSUME NEW t \in Transfers \ broken', NEW r \in Listeners[t],
                      NEW k \in 0..sent[t], NEW l \in 0..sent[t],
                      InQueue(r, t, k)', k < l, l < sent[t]
               PROVE  InQueue(r, t, l)'
  BY DEF GapInv
<1>2. r \in Subs /\ k \in Nat /\ l \in Nat
  BY ChunkingAssumption, SizeFacts
<1>3. InQueue(r, t, k) /\ ~(r = s /\ t = m.id /\ k = Num(m))
  BY <1>1, <1>2 DEF TakesOut
<1>4. InQueue(r, t, l)
  BY <1>1, <1>3 DEF GapInv
<1>5. ~(r = s /\ t = m.id /\ l = Num(m))
  <2>1. SUFFICES ASSUME r = s, t = m.id, l = Num(m) PROVE FALSE
    OBVIOUS
  <2>2. Num(m) <= k
    BY <1>2, <1>3, <2>1 DEF Taken
  <2>. QED BY <1>1, <1>2, <2>1, <2>2
<1>. QED BY <1>2, <1>4, <1>5 DEF TakesOut

(* publish() changes the queues and nothing at the receiver. *)
LEMMA Publishing ==
  ASSUME ChunkInv, NEW t \in Transfers, Publish(t)
  PROVE  SizeInv' /\ QueueInv' /\ GapInv' /\ BuildInv' /\ ItemInv' /\ OnceInv' /\ ProgressInv'
<1>. USE DEF ChunkInv
<1>0. size' = size /\ UNCHANGED <<asm, obj, cb, out, ready>>
  BY DEF Publish, mgrVars
<1>1. SizeInv' /\ QueueInv' /\ Adds(t) /\ sent'[t] = sent[t] + 1 /\ \A u \in Transfers \ {t} : sent'[u] = sent[u]
  BY PublishQueue
<1>2. \A u \in Transfers : sent[u] \in Nat /\ MessagesOf(u) \in Nat /\ sent'[u] \in Nat /\ sent[u] <= sent'[u]
  BY <1>1, SizeFacts
<1>3. \A r \in Subs, u \in Transfers : sent[u] > 0 /\ InQueue(r, u, 0)' => InQueue(r, u, 0)
  BY <1>1, <1>2 DEF Adds
<1>4. GapInv'
  <2>1. SUFFICES ASSUME NEW u \in Transfers \ broken', NEW r \in Listeners[u],
                        NEW k \in 0..sent'[u], NEW l \in 0..sent'[u],
                        InQueue(r, u, k)', k < l, l < sent'[u]
                 PROVE  InQueue(r, u, l)'
    BY DEF GapInv
  <2>2. r \in Subs /\ k \in Nat /\ l \in Nat /\ u \in Transfers \ broken
    BY <1>1, <1>2, ChunkingAssumption DEF Adds
  <2>3. CASE u # t
    <3>1. sent'[u] = sent[u] /\ InQueue(r, u, k) /\ (InQueue(r, u, l) => InQueue(r, u, l)')
      BY <1>1, <2>1, <2>2, <2>3 DEF Adds
    <3>. QED BY <2>1, <2>2, <3>1 DEF GapInv
  <2>4. CASE u = t
    <3>1. \A x \in Nat : InQueue(r, t, x)' <=> InQueue(r, t, x) \/ x = sent[t]
      BY <1>1, <2>1, <2>2, <2>4 DEF Adds
    <3>2. CASE l = sent[t]
      BY <1>2, <2>2, <2>4, <3>1, <3>2
    <3>3. CASE l # sent[t]
      <4>1. l < sent[t] /\ k # sent[t] /\ k \in 0..sent[t] /\ l \in 0..sent[t]
        BY <1>1, <1>2, <2>1, <2>2, <2>4, <3>3
      <4>2. InQueue(r, t, k)
        BY <2>1, <2>2, <2>4, <3>1, <4>1
      <4>3. InQueue(r, t, l)
        BY <2>1, <2>2, <2>4, <4>1, <4>2 DEF GapInv
      <4>. QED BY <2>2, <2>4, <3>1, <4>3
    <3>. QED BY <3>2, <3>3
  <2>. QED BY <2>3, <2>4
<1>5. BuildInv'
  <2>1. ASSUME NEW u \in DOMAIN asm PROVE Built(u)'
    <3>1. Built(u)
      BY DEF BuildInv
    <3>2. u \in Transfers /\ cb[u] \in Subs /\ sent[u] > 0
      BY <3>1 DEF Built
    <3>3. InQueue(cb[u], u, 0)' => InQueue(cb[u], u, 0)
      BY <1>0, <1>3, <3>2 DEF InQueue
    <3>. QED BY <1>0, <1>2, <3>2, <3>3, BuiltKept
  <2>. QED BY <1>0, <2>1 DEF BuildInv, IsAssembler
<1>6. ItemInv' /\ OnceInv' /\ \A r \in Subs, u \in Transfers : InOut(r, u) => InOut(r, u)'
  <2>1. \A r \in Subs, u \in Transfers : Handed(r, u) =>
                 sent'[u] > 0 /\ ~InQueue(r, u, 0)' /\ ~(u \in DOMAIN asm' /\ cb'[u] = r)
    BY <1>0, <1>2, <1>3 DEF OnceInv
  <2>2. Delivers({}, t)
    BY <1>0, KeepDelivers
  <2>. QED BY <1>0, <2>1, <2>2, OnceAfter
<1>7. ProgressInv'
  <2>1. SUFFICES ASSUME NEW u \in Transfers \ broken', NEW s \in Subs PROVE Progress(s, u)'
    BY DEF ProgressInv
  <2>2. u \in Transfers \ broken
    BY <1>1 DEF Adds
  <2>3. CASE u # t
    <3>1. sent'[u] = sent[u] /\ \A k \in Nat : InQueue(s, u, k)' <=> InQueue(s, u, k)
      BY <1>1, <2>2, <2>3 DEF Adds
    <3>. QED BY <1>0, <1>2, <1>6, <2>2, <3>1, ProgressKept
  <2>4. CASE u = t
    <3>1. SUFFICES ASSUME Listeners[t] = {s}, ~InQueue(s, t, 0)'
                   PROVE  InOut(s, t)' \/ Advanced(s, t)'
      BY <2>4 DEF Progress
    <3>2. \A k \in Nat : InQueue(s, t, k)' <=> InQueue(s, t, k) \/ k = sent[t]
      BY <1>1, <2>1, <2>4, <3>1 DEF Adds
    <3>3. sent[t] > 0 /\ ~InQueue(s, t, 0)
      BY <1>2, <3>1, <3>2
    <3>4. InOut(s, t) \/ Advanced(s, t)
      BY <2>2, <2>4, <3>1, <3>3 DEF ProgressInv, Progress
    <3>5. Advanced(s, t) => Advanced(s, t)'
      <4>1. MessagesOf(t)' = MessagesOf(t)
        BY <1>0 DEF MessagesOf, IsChunked
      <4>2. \A i \in 0..MessagesOf(t) : /\ InQueue(s, t, i + 1)' <=> InQueue(s, t, i + 1) \/ i + 1 = sent[t]
                                        /\ i + 1 < sent'[t] <=> i + 1 < sent[t] \/ i + 1 = sent[t]
        BY <1>1, <1>2, <3>2
      <4>. QED BY <1>0, <1>2, <4>1, <4>2 DEF Advanced
    <3>. QED BY <1>6, <3>4, <3>5
  <2>. QED BY <2>3, <2>4
<1>. QED BY <1>1, <1>4, <1>5, <1>6, <1>7


-----------------------------------------------------------------------------
(* The steps of the receiver. *)

(* What a step that deals with message t leaves alone: the assemblers of other
   messages, unless they are broken now, and the queues, which only shrink. *)
Keeps(t) ==
    /\ UNCHANGED <<size, sent>> /\ broken \subseteq broken' /\ broken' \subseteq Transfers
    /\ \A u \in DOMAIN asm' \ {t} :
          /\ u \in DOMAIN asm /\ asm'[u] = asm[u] /\ cb'[u] = cb[u]
          /\ obj'[asm[u]] = obj[asm[u]]
    /\ \A u \in DOMAIN asm \ (broken' \cup {t}) : u \in DOMAIN asm'
    /\ \A o \in Objs : IsAssembler(obj'[o])
    /\ \A r \in Subs, u \in Transfers, k \in Nat :
          /\ InQueue(r, u, k)' => InQueue(r, u, k)
          /\ u # t => (InQueue(r, u, k) => InQueue(r, u, k)')

(* What a step has to show of the message it deals with. *)
Settled(R, t) ==
    /\ t \in DOMAIN asm' => Built(t)'
    /\ \A r \in Subs : Handed(r, t) \/ r \in R =>
          sent[t] > 0 /\ ~InQueue(r, t, 0)' /\ ~(t \in DOMAIN asm' /\ cb'[t] = r)
    /\ \A r \in Subs : t \notin broken' /\ (InOut(r, t) => InOut(r, t)') => Progress(r, t)'

Kept == SizeInv' /\ QueueInv' /\ GapInv' /\ BuildInv' /\ ItemInv' /\ OnceInv' /\ ProgressInv'

(* It is enough to look at the message that a step deals with. *)
LEMMA OnlyOne ==
  ASSUME ChunkInv, NEW t \in Transfers, NEW R, Delivers(R, t), Keeps(t), Settled(R, t), QueueInv', GapInv'
  PROVE  Kept
<1>. USE DEF ChunkInv
<1>0. size' = size /\ sent' = sent /\ broken \subseteq broken'
  BY DEF Keeps
<1>1. SizeInv'
  <2>1. \A u \in Transfers : MessagesOf(u)' = MessagesOf(u)
    BY <1>0 DEF MessagesOf, IsChunked
  <2>. QED BY <1>0, <2>1 DEF SizeInv, Keeps
<1>2. \A u \in Transfers : sent[u] \in Nat /\ MessagesOf(u) \in Nat
  BY SizeFacts
<1>3. BuildInv'
  <2>1. ASSUME NEW u \in DOMAIN asm', u # t PROVE Built(u)'
    <3>1. u \in DOMAIN asm /\ asm'[u] = asm[u] /\ cb'[u] = cb[u] /\ obj'[asm[u]] = obj[asm[u]]
      BY <2>1 DEF Keeps
    <3>2. Built(u)
      BY <3>1 DEF BuildInv
    <3>3. u \in Transfers /\ cb[u] \in Subs
      BY <3>2 DEF Built
    <3>4. \A r \in Subs : InQueue(r, u, 0)' => InQueue(r, u, 0)
      BY <3>3 DEF Keeps
    <3>5. InQueue(cb[u], u, 0)' => InQueue(cb[u], u, 0)
      BY <3>1, <3>3, <3>4 DEF InQueue
    <3>. QED BY <1>0, <1>2, <3>1, <3>3, <3>5, BuiltKept
  <2>2. \A u \in DOMAIN asm' : Built(u)'
    BY <2>1 DEF Settled
  <2>3. \A o \in Objs : IsAssembler(obj[o])'
    BY DEF Keeps, IsAssembler
  <2>. QED BY <2>2, <2>3 DEF BuildInv
<1>4. ItemInv' /\ OnceInv' /\ \A r \in Subs, u \in Transfers : InOut(r, u) => InOut(r, u)'
  <2>1. ASSUME NEW r \in Subs, NEW u \in Transfers, Handed(r, u) \/ (u = t /\ r \in R)
        PROVE  sent'[u] > 0 /\ ~InQueue(r, u, 0)' /\ ~(u \in DOMAIN asm' /\ cb'[u] = r)
    <3>1. CASE u = t
      BY <1>0, <2>1, <3>1 DEF Settled
    <3>2. CASE u # t
      <4>1. sent[u] > 0 /\ ~InQueue(r, u, 0) /\ ~(u \in DOMAIN asm /\ cb[u] = r)
        BY <2>1, <3>2 DEF OnceInv
      <4>2. ~InQueue(r, u, 0)'
        BY <4>1 DEF Keeps
      <4>3. ~(u \in DOMAIN asm' /\ cb'[u] = r)
        BY <3>2, <4>1 DEF Keeps
      <4>. QED BY <1>0, <4>1, <4>2, <4>3
    <3>. QED BY <3>1, <3>2
  <2>. QED BY <1>0, <2>1, OnceAfter
<1>5. ProgressInv'
  <2>1. SUFFICES ASSUME NEW u \in Transfers \ broken', NEW r \in Subs PROVE Progress(r, u)'
    BY DEF ProgressInv
  <2>2. CASE u = t
    BY <1>4, <2>2 DEF Settled
  <2>3. CASE u # t
    <3>1. u \in Transfers \ broken /\ sent'[u] = sent[u]
      BY <1>0
    <3>2. \A k \in Nat : InQueue(r, u, k)' <=> InQueue(r, u, k)
      BY <2>3 DEF Keeps
    <3>3. u \in DOMAIN asm => u \in DOMAIN asm' /\ asm'[u] = asm[u] /\ obj'[asm[u]] = obj[asm[u]]
      BY <2>3 DEF Keeps
    <3>. QED BY <1>0, <1>2, <1>4, <3>1, <3>2, <3>3, ProgressKept
  <2>. QED BY <2>2, <2>3
<1>. QED BY <1>1, <1>3, <1>4, <1>5 DEF Kept

(* The message at the head of a queue, taken by its subscription. *)
LEMMA TakeFacts ==
  ASSUME ChunkInv, NEW s \in Subs, NEW kind, Receive(s, kind), UNCHANGED <<size, sent>>,
         broken \subseteq broken', NEW m, m = Head(q[s])
  PROVE  /\ QueueInv' /\ GapInv' /\ Taken(s, m) /\ TakesOut(s, m) /\ m.kind = kind
         /\ m \in Messages /\ m.id \in Transfers /\ Num(m) \in Nat /\ WellFormed(m)
         /\ Num(m) < sent[m.id] /\ sent[m.id] > 0 /\ s \in Listeners[m.id]
         /\ \A r \in Subs, u \in Transfers, k \in Nat :
               /\ InQueue(r, u, k)' => InQueue(r, u, k)
               /\ u # m.id => (InQueue(r, u, k) => InQueue(r, u, k)')
         /\ ~InQueue(s, m.id, 0)'
         /\ \A r \in Subs : Listeners[m.id] = {r} => r = s
<1>. USE DEF ChunkInv
<1>1. QueueInv' /\ Taken(s, m) /\ TakesOut(s, m) /\ m.kind = kind
  BY ReceiveQueue
<1>2. m \in Messages /\ Expected(s, m) /\ \A k \in Nat : InQueue(s, m.id, k) => Num(m) <= k
  BY <1>1 DEF Taken
<1>3. m.id \in Transfers /\ Num(m) \in Nat
  BY <1>2, NumType
<1>4. sent[m.id] \in Nat
  BY <1>3, SizeFacts
<1>5. WellFormed(m) /\ Num(m) < sent[m.id] /\ s \in Listeners[m.id]
  BY <1>2 DEF Expected
<1>6. sent[m.id] > 0
  BY <1>3, <1>4, <1>5
<1>7. GapInv'
  BY <1>1, TakeGap
<1>8. \A r \in Subs, u \in Transfers, k \in Nat :
                   /\ InQueue(r, u, k)' => InQueue(r, u, k)
                   /\ u # m.id => (InQueue(r, u, k) => InQueue(r, u, k)')
  BY <1>1 DEF TakesOut
<1>9. ~InQueue(s, m.id, 0)'
  <2>1. InQueue(s, m.id, 0)' <=> InQueue(s, m.id, 0) /\ ~(0 = Num(m))
    BY <1>1, <1>3 DEF TakesOut
  <2>2. InQueue(s, m.id, 0) => Num(m) <= 0
    BY <1>2
  <2>. QED BY <1>3, <2>1, <2>2
<1>10. \A r \in Subs : Listeners[m.id] = {r} => r = s
  BY <1>5
<1>. QED BY <1>1, <1>2, <1>3, <1>5, <1>6, <1>7, <1>8, <1>9, <1>10

(* What a sweep drops are known transfers. *)
LEMMA SweptFacts ==
  ASSUME ChunkInv, NEW swept \in SweptSets
  PROVE  swept \subseteq Transfers /\ broken \cup swept \subseteq Transfers
<1>1. DOMAIN asm \subseteq Transfers
  BY DEF ChunkInv, BuildInv, Built
<1>2. swept \subseteq Transfers
  BY <1>1 DEF SweptSets, ChunkInv, Bookkeeping
<1>. QED BY <1>2 DEF ChunkInv, SizeInv

(* Forgetting transfers leaves the others registered as they were. *)
LEMMA ForgetFacts ==
  ASSUME Bookkeeping, NEW ts, NEW touched, Forget(ts, touched)
  PROVE  /\ DOMAIN asm' = DOMAIN asm \ ts
         /\ \A u \in DOMAIN asm' : asm'[u] = asm[u] /\ cb'[u] = cb[u]
  BY DEF Bookkeeping, Forget, RestrictTo

(* A message that was not split goes to the handler as it is. *)
LEMMA HandlingPlain ==
  ASSUME ChunkInv, NEW s \in Subs, HandlePlain(s)
  PROVE  Kept
<1>. SUFFICES ASSUME NEW m, m = Head(q[s]), NEW t, t = m.id PROVE Kept
  OBVIOUS
<1>0. /\ Receive(s, "plain") /\ out' = [out EXCEPT ![s] = Append(@, Item(t))]
      /\ UNCHANGED <<size, sent, asm, obj, cb, ready, broken>>
  BY DEF HandlePlain, mgrVars, Item
<1>1. /\ QueueInv' /\ GapInv' /\ Taken(s, m) /\ TakesOut(s, m) /\ m.kind = "plain"
      /\ t \in Transfers /\ WellFormed(m) /\ sent[t] > 0
      /\ \A r \in Subs, u \in Transfers, k \in Nat :
            /\ InQueue(r, u, k)' => InQueue(r, u, k)
            /\ u # t => (InQueue(r, u, k) => InQueue(r, u, k)')
      /\ ~InQueue(s, t, 0)' /\ \A r \in Subs : Listeners[t] = {r} => r = s
  BY <1>0, TakeFacts
<1>2. InQueue(s, t, 0) /\ t \notin DOMAIN asm
  <2>1. Num(m) = 0 /\ ~IsChunked(t)
    BY <1>1 DEF Num, WellFormed
  <2>. QED BY <1>1, <2>1 DEF Taken, ChunkInv, BuildInv, Built
<1>3. ~Handed(s, t)
  BY <1>1, <1>2 DEF ChunkInv, OnceInv
<1>4. Delivers({s}, t) /\ InOut(s, t)'
  BY <1>0, <1>1, <1>3, PlainDelivers DEF ChunkInv
<1>5. Keeps(t)
  BY <1>0, <1>1 DEF Keeps, ChunkInv, SizeInv, BuildInv
<1>6. Settled({s}, t)
  <2>1. \A r \in Subs : Handed(r, t) \/ r \in {s} => ~InQueue(r, t, 0)'
    BY <1>1 DEF ChunkInv, OnceInv
  <2>2. \A r \in Subs : Progress(r, t)'
    BY <1>0, <1>1, <1>4 DEF Progress
  <2>. QED BY <1>0, <1>1, <1>2, <2>1, <2>2 DEF Settled
<1>. QED BY <1>1, <1>4, <1>5, <1>6, OnlyOne

(* The assembler start_receiving() registers. *)
Fresh(t) == [id |-> t, got |-> {}, total |-> TotalChunks(size[t]),
             buf |-> [j \in 0..(size[t] - 1) |-> Zero]]

(* A fresh assembler has counted no chunk. *)
LEMMA FreshFacts ==
  ASSUME SizeInv, NEW t \in Transfers
  PROVE  IsAssembler(Fresh(t)) /\ Assembles(Fresh(t), t) /\ Fresh(t).got = {}
<1>1. TotalChunks(size[t]) \in Nat \ {0}
  BY SizeFacts
<1>2. {} # 0..(TotalChunks(size[t]) - 1)
  BY <1>1
<1>. DEFINE b == [j \in 0..(size[t] - 1) |-> Zero]
<1>3. DOMAIN b = 0..(size[t] - 1) /\ b = [j \in DOMAIN b |-> b[j]] /\ \A j \in DOMAIN b : b[j] \in Bytes
  BY DEF Bytes
<1>. HIDE DEF b
<1>4. Fresh(t) = [id |-> t, got |-> {}, total |-> TotalChunks(size[t]), buf |-> b]
  BY DEF Fresh, b
<1>5. /\ Fresh(t).id = t /\ Fresh(t).got = {} /\ Fresh(t).total = TotalChunks(size[t])
      /\ Fresh(t).buf = b
  BY <1>4
<1>6. IsAssembler(Fresh(t))
  BY <1>1, <1>3, <1>4, <1>5 DEF IsAssembler
<1>7. Assembles(Fresh(t), t)
  BY <1>2, <1>3, <1>5 DEF Assembles, Placed
<1>. QED BY <1>5, <1>6, <1>7

(* Object o is registered for t, and all else stays but what was swept. *)
Started(s, t, swept, o) ==
    /\ DOMAIN asm' = (DOMAIN asm \ swept) \cup {t} /\ asm'[t] = o /\ cb'[t] = s
    /\ obj'[o] = Fresh(t) /\ \A x \in Objs \ {o} : obj'[x] = obj[x]
    /\ \A u \in DOMAIN asm' \ {t} : /\ u \in DOMAIN asm /\ asm'[u] = asm[u] /\ cb'[u] = cb[u]
                                    /\ asm[u] \in Objs /\ asm[u] # o

(* start_receiving() takes an object that no other transfer uses. *)
LEMMA StartFacts ==
  ASSUME Bookkeeping, AliasInv, NEW s, NEW t, NEW swept, StartReceiving(s, t, swept)
  PROVE  \E o \in Objs : Started(s, t, swept, o)
<1>1. PICK p \in PoolsAfter(ObjectsOf(swept)) :
      \E o \in IF p # {} THEN p ELSE Objs \ {asm[u] : u \in DOMAIN asm \ swept} :
       /\ obj' = [obj EXCEPT ![o] = Fresh(t)]
       /\ asm' = [u \in (DOMAIN asm \ swept) \cup {t} |-> IF u = t THEN o ELSE asm[u]]
       /\ cb' = [u \in (DOMAIN cb \ swept) \cup {t} |-> IF u = t THEN s ELSE cb[u]]
  BY DEF StartReceiving, Fresh
<1>2. p \subseteq Objs /\ \A u \in DOMAIN asm \ swept : asm[u] \notin p
  BY <1>1, PoolGrows
<1>3. PICK o \in IF p # {} THEN p ELSE Objs \ {asm[u] : u \in DOMAIN asm \ swept} :
       /\ obj' = [obj EXCEPT ![o] = Fresh(t)]
       /\ asm' = [u \in (DOMAIN asm \ swept) \cup {t} |-> IF u = t THEN o ELSE asm[u]]
       /\ cb' = [u \in (DOMAIN cb \ swept) \cup {t} |-> IF u = t THEN s ELSE cb[u]]
  BY <1>1
<1>4. o \in Objs /\ \A u \in DOMAIN asm \ swept : asm[u] # o
  BY <1>2, <1>3
<1>5. DOMAIN cb = DOMAIN asm /\ DOMAIN obj = Objs /\ \A u \in DOMAIN asm : asm[u] \in Objs
  BY DEF Bookkeeping, AliasInv, ObjInv
<1>6. obj'[o] = Fresh(t) /\ \A x \in Objs \ {o} : obj'[x] = obj[x]
  BY <1>3, <1>4, <1>5
<1>7. DOMAIN asm' = (DOMAIN asm \ swept) \cup {t} /\ asm'[t] = o /\ cb'[t] = s
  BY <1>3
<1>8. \A u \in DOMAIN asm' \ {t} : u \in DOMAIN asm \ swept /\ asm'[u] = asm[u] /\ cb'[u] = cb[u]
  BY <1>3, <1>5, <1>7
<1>. QED BY <1>4, <1>5, <1>6, <1>7, <1>8 DEF Started

(* A header starts an assembler for its subscription; what was published of
   the transfer is all still queued. *)
LEMMA HandlingHeader ==
  ASSUME ChunkInv, NEW s \in Subs, HandleHeader(s)
  PROVE  Kept
<1>. SUFFICES ASSUME NEW m, m = Head(q[s]), NEW t, t = m.id PROVE Kept
  OBVIOUS
<1>0. /\ Receive(s, "header") /\ UNCHANGED <<size, sent, ready, out>>
      /\ \E swept \in SweptSets : StartReceiving(s, t, swept) /\ broken' = broken \cup swept
  BY DEF HandleHeader
<1>1. PICK swept \in SweptSets : StartReceiving(s, t, swept) /\ broken' = broken \cup swept
  BY <1>0
<1>2. /\ QueueInv' /\ GapInv' /\ Taken(s, m) /\ TakesOut(s, m) /\ m.kind = "header"
      /\ t \in Transfers /\ WellFormed(m) /\ sent[t] > 0 /\ s \in Listeners[t]
      /\ \A r \in Subs, u \in Transfers, k \in Nat :
            /\ InQueue(r, u, k)' => InQueue(r, u, k)
            /\ u # t => (InQueue(r, u, k) => InQueue(r, u, k)')
      /\ ~InQueue(s, t, 0)' /\ \A r \in Subs : Listeners[t] = {r} => r = s
  BY <1>0, <1>1, TakeFacts
<1>3. Num(m) = 0 /\ IsChunked(t) /\ InQueue(s, t, 0)
  BY <1>2 DEF Num, WellFormed, Taken
<1>4. PICK o \in Objs : Started(s, t, swept, o)
  BY <1>1, StartFacts DEF ChunkInv
<1>5. IsAssembler(Fresh(t)) /\ Assembles(Fresh(t), t) /\ Fresh(t).got = {}
  BY <1>2, FreshFacts DEF ChunkInv
<1>6. Delivers({}, t)
  BY <1>0, <1>2, KeepDelivers DEF ChunkInv
<1>7. Keeps(t)
  <2>1. \A x \in Objs : IsAssembler(obj'[x])
    BY <1>4, <1>5 DEF ChunkInv, BuildInv, Started
  <2>2. broken \subseteq broken' /\ broken' \subseteq Transfers
    BY <1>1, SweptFacts
  <2>3. \A u \in DOMAIN asm \ (broken' \cup {t}) : u \in DOMAIN asm'
    BY <1>1, <1>4 DEF Started
  <2>4. \A u \in DOMAIN asm' \ {t} :
          /\ u \in DOMAIN asm /\ asm'[u] = asm[u] /\ cb'[u] = cb[u] /\ obj'[asm[u]] = obj[asm[u]]
    BY <1>4 DEF Started
  <2>. QED BY <1>0, <1>2, <2>1, <2>2, <2>3, <2>4 DEF Keeps
<1>8. Settled({}, t)
  <2>1. Built(t)'
    <3>1. Assembles(obj[asm[t]], t)'
      BY <1>0, <1>4, <1>5 DEF Assembles, Placed, Started
    <3>2. IsChunked(t)' /\ sent'[t] > 0
      BY <1>0, <1>2, <1>3 DEF IsChunked
    <3>3. ~InQueue(cb[t], t, 0)'
      BY <1>2, <1>4 DEF InQueue, Started
    <3>. QED BY <1>2, <1>4, <3>1, <3>2, <3>3 DEF Built, Started
  <2>2. \A r \in Subs : Handed(r, t) => r # s /\ ~InQueue(r, t, 0)'
    BY <1>2, <1>3 DEF ChunkInv, OnceInv
  <2>3. ASSUME NEW r \in Subs, t \notin broken' PROVE Progress(r, t)'
    <3>1. SUFFICES ASSUME r = s PROVE Advanced(s, t)'
      BY <1>2 DEF Progress
    <3>2. sent[t] \in Nat /\ MessagesOf(t) \in Nat
      BY <1>2, SizeFacts DEF ChunkInv
    <3>3. MessagesOf(t)' = MessagesOf(t)
      BY <1>0 DEF MessagesOf, IsChunked
    <3>4. t \in Transfers \ broken
      BY <1>1, <1>2, <2>3
    <3>5. ASSUME NEW i \in 0..MessagesOf(t), i + 1 < sent[t] PROVE InQueue(s, t, i + 1)'
      <4>1. 0 \in 0..sent[t] /\ i + 1 \in 0..sent[t] /\ 0 < i + 1 /\ i + 1 \in Nat
        BY <3>2, <3>5
      <4>2. InQueue(s, t, i + 1)
        BY <1>2, <1>3, <3>4, <3>5, <4>1 DEF ChunkInv, GapInv
      <4>3. i + 1 # Num(m)
        BY <1>3, <4>1
      <4>. QED BY <1>2, <4>1, <4>2, <4>3 DEF TakesOut
    <3>6. t \in DOMAIN asm' /\ obj'[asm'[t]].got = {}
      BY <1>4, <1>5 DEF Started
    <3>. QED BY <1>0, <3>3, <3>5, <3>6 DEF Advanced
  <2>. QED BY <1>2, <1>4, <2>1, <2>2, <2>3 DEF Settled, Started
<1>. QED BY <1>2, <1>6, <1>7, <1>8, OnlyOne

(* A chunk nobody waits for: its transfer was handed over already, is broken,
   or belongs to another subscription. *)
LEMMA HandlingUnknown ==
  ASSUME ChunkInv, NEW s \in Subs, ChunkUnknown(s)
  PROVE  Kept
<1>. SUFFICES ASSUME NEW m, m = Head(q[s]), NEW t, t = m.id PROVE Kept
  OBVIOUS
<1>0. /\ Receive(s, "chunk") /\ UNCHANGED <<size, sent, obj>> /\ Drain(s, <<>>)
      /\ \E swept \in SweptSets : t \notin DOMAIN asm \ swept /\ Forget(swept, {}) /\ broken' = broken \cup swept
  BY DEF ChunkUnknown
<1>1. PICK swept \in SweptSets : t \notin DOMAIN asm \ swept /\ Forget(swept, {}) /\ broken' = broken \cup swept
  BY <1>0
<1>2. /\ QueueInv' /\ GapInv' /\ Taken(s, m) /\ TakesOut(s, m) /\ m.kind = "chunk" /\ m \in Messages
      /\ t \in Transfers /\ sent[t] > 0 /\ s \in Listeners[t] /\ Num(m) \in Nat
      /\ \A r \in Subs, u \in Transfers, k \in Nat :
            /\ InQueue(r, u, k)' => InQueue(r, u, k)
            /\ u # t => (InQueue(r, u, k) => InQueue(r, u, k)')
      /\ \A r \in Subs : Listeners[t] = {r} => r = s
  BY <1>0, <1>1, TakeFacts
<1>3. ~InQueue(s, t, 0)
  <2>1. Num(m) # 0
    BY <1>2 DEF Num, Messages
  <2>2. InQueue(s, t, 0) => Num(m) <= 0
    BY <1>2 DEF Taken
  <2>. QED BY <1>2, <2>1, <2>2
<1>4. DOMAIN asm' = DOMAIN asm \ swept /\ \A u \in DOMAIN asm' : asm'[u] = asm[u] /\ cb'[u] = cb[u]
  BY <1>1, ForgetFacts DEF ChunkInv
<1>5. Delivers({}, t)
  BY <1>0, <1>2, DrainDelivers DEF ChunkInv
<1>6. Keeps(t)
  <2>1. broken \subseteq broken' /\ broken' \subseteq Transfers
    BY <1>1, SweptFacts
  <2>2. \A x \in Objs : IsAssembler(obj'[x])
    BY <1>0 DEF ChunkInv, BuildInv
  <2>. QED BY <1>0, <1>1, <1>2, <1>4, <2>1, <2>2 DEF Keeps
<1>7. Settled({}, t)
  <2>1. \A r \in Subs : Handed(r, t) => ~InQueue(r, t, 0)'
    BY <1>2 DEF ChunkInv, OnceInv
  <2>2. ASSUME NEW r \in Subs, t \notin broken', InOut(r, t) => InOut(r, t)' PROVE Progress(r, t)'
    <3>1. SUFFICES ASSUME r = s, Listeners[t] = {s} PROVE InOut(s, t)
      BY <1>2, <2>2 DEF Progress
    <3>2. t \in Transfers \ broken /\ t \notin DOMAIN asm
      BY <1>1, <1>2, <2>2
    <3>3. Progress(s, t)
      BY <3>2 DEF ChunkInv, ProgressInv
    <3>. QED BY <1>2, <1>3, <3>1, <3>2, <3>3 DEF Progress, Advanced
  <2>. QED BY <1>1, <1>2, <1>4, <2>1, <2>2 DEF Settled
<1>. QED BY <1>2, <1>5, <1>6, <1>7, OnlyOne

(* The chunk is written to the assembler of its transfer, and to no other. *)
LEMMA KnownObjects ==
  ASSUME ChunkInv, NEW t \in DOMAIN asm, NEW b, IsAssembler(b), obj' = [obj EXCEPT ![asm[t]] = b]
  PROVE  /\ obj'[asm[t]] = b /\ \A x \in Objs : IsAssembler(obj'[x])
         /\ \A u \in DOMAIN asm \ {t} : obj'[asm[u]] = obj[asm[u]]
<1>1. DOMAIN obj = Objs /\ \A u \in DOMAIN asm : asm[u] \in Objs /\ obj[asm[u]].id = u
  BY DEF ChunkInv, AliasInv, ObjInv, NoAliasing
<1>2. \A u \in DOMAIN asm \ {t} : asm[u] # asm[t]
  BY <1>1
<1>. QED BY <1>1, <1>2 DEF ChunkInv, BuildInv

(* A chunk of a transfer that is being assembled: it joins the others, or it
   is the last one and the message is handed over. *)
LEMMA HandlingKnown ==
  ASSUME ChunkInv, NEW s \in Subs, ChunkKnown(s)
  PROVE  Kept
<1>1. SUFFICES ASSUME NEW m, m = Head(q[s]), NEW t, t = m.id, NEW i, i = m.index PROVE Kept
  OBVIOUS
<1>2. SUFFICES ASSUME NEW a, a = obj[asm[t]], NEW b, b = AddChunk(a, i, ChunkBytes(t, i)) PROVE Kept
  OBVIOUS
<1>3. Receive(s, "chunk") /\ UNCHANGED <<size, sent>>
  BY DEF ChunkKnown
<1>4. \E swept \in SweptSets :
          /\ t \in DOMAIN asm \ swept /\ obj' = [obj EXCEPT ![asm[t]] = b] /\ broken' = broken \cup swept
          /\ \/ ~IsComplete(b) /\ Forget(swept, {t}) /\ Drain(s, <<>>)
             \/ /\ IsComplete(b) /\ Forget(swept \cup {t}, {})
                /\ IF cb[t] = s
                   THEN Drain(s, <<[id |-> t, data |-> b.buf]>>)
                   ELSE /\ out' = [out EXCEPT ![s] = @ \o ready[s]]
                        /\ ready' = [ready EXCEPT ![s] = <<>>, ![cb[t]] = @ \o <<[id |-> t, data |-> b.buf]>>]
  BY <1>1, <1>2 DEF ChunkKnown
<1>5. PICK swept \in SweptSets :
          /\ t \in DOMAIN asm \ swept /\ obj' = [obj EXCEPT ![asm[t]] = b] /\ broken' = broken \cup swept
          /\ \/ ~IsComplete(b) /\ Forget(swept, {t}) /\ Drain(s, <<>>)
             \/ /\ IsComplete(b) /\ Forget(swept \cup {t}, {})
                /\ IF cb[t] = s
                   THEN Drain(s, <<[id |-> t, data |-> b.buf]>>)
                   ELSE /\ out' = [out EXCEPT ![s] = @ \o ready[s]]
                        /\ ready' = [ready EXCEPT ![s] = <<>>, ![cb[t]] = @ \o <<[id |-> t, data |-> b.buf]>>]
  BY <1>4
<1>6. /\ QueueInv' /\ GapInv' /\ Taken(s, m) /\ TakesOut(s, m) /\ m.kind = "chunk" /\ m \in Messages
      /\ t \in Transfers /\ WellFormed(m) /\ Num(m) < sent[t] /\ sent[t] > 0 /\ s \in Listeners[t]
      /\ \A r \in Subs, u \in Transfers, k \in Nat :
            /\ InQueue(r, u, k)' => InQueue(r, u, k)
            /\ u # t => (InQueue(r, u, k) => InQueue(r, u, k)')
      /\ \A r \in Subs : Listeners[t] = {r} => r = s
  <2>1. broken \subseteq broken'
    BY <1>5
  <2>. QED BY <1>3, <1>1, <2>1, TakeFacts
<1>7. /\ size[t] \in Nat \ {0} /\ TotalChunks(size[t]) \in Nat \ {0} /\ sent[t] \in Nat
      /\ MessagesOf(t) \in Nat
  BY <1>6, SizeFacts DEF ChunkInv
<1>8. i \in 0..(TotalChunks(size[t]) - 1) /\ Num(m) = i + 1
  <2>1. i \in Nat /\ Num(m) = i + 1
    BY <1>6, <1>1 DEF Messages, Num
  <2>2. i < TotalChunks(size[t])
    BY <1>6, <1>1 DEF WellFormed
  <2>. QED BY <1>7, <2>1, <2>2
<1>9. Built(t) /\ Assembles(a, t) /\ IsAssembler(a)
  BY <1>5, <1>2 DEF ChunkInv, BuildInv, Built, AliasInv, ObjInv
<1>10. cb[t] \in Subs /\ cb[t] \in Listeners[t] /\ ~InQueue(cb[t], t, 0) /\ IsChunked(t)
  BY <1>9 DEF Built
<1>11. /\ IsAssembler(b) /\ b.id = t /\ b.total = TotalChunks(size[t])
      /\ b.got = a.got \cup {i} /\ Placed(b, t)
  BY <1>6, <1>7, <1>8, <1>9, <1>2, ChunkAdded
<1>12. b.got \in SUBSET (0..(TotalChunks(size[t]) - 1))
  BY <1>8, <1>9, <1>11 DEF Assembles
<1>13. IsComplete(b) <=> b.got = 0..(TotalChunks(size[t]) - 1)
  <2>1. Cardinality(b.got) = TotalChunks(size[t]) <=> b.got = 0..(TotalChunks(size[t]) - 1)
    BY <1>7, <1>12, CompleteIsAll
  <2>. QED BY <1>11, <2>1 DEF IsComplete
<1>14. /\ obj'[asm[t]] = b /\ \A x \in Objs : IsAssembler(obj'[x])
       /\ \A u \in DOMAIN asm \ {t} : obj'[asm[u]] = obj[asm[u]]
  <2>1. t \in DOMAIN asm /\ obj' = [obj EXCEPT ![asm[t]] = b] /\ IsAssembler(b)
    BY <1>5, <1>11
  <2>. QED BY <2>1, KnownObjects
<1>15. broken \subseteq broken' /\ broken' \subseteq Transfers
  BY <1>5, SweptFacts
<1>16. \A r \in Subs : Handed(r, t) => ~InQueue(r, t, 0)' /\ r # cb[t]
  BY <1>5, <1>6 DEF ChunkInv, OnceInv
<1>17. CASE ~IsComplete(b) /\ Forget(swept, {t}) /\ Drain(s, <<>>)
  <2>1. DOMAIN asm' = DOMAIN asm \ swept /\ \A u \in DOMAIN asm' : asm'[u] = asm[u] /\ cb'[u] = cb[u]
    BY <1>17, ForgetFacts DEF ChunkInv
  <2>2. Delivers({}, t)
    BY <1>6, <1>17, DrainDelivers DEF ChunkInv
  <2>3. Keeps(t)
    BY <1>3, <1>5, <1>6, <1>14, <1>15, <2>1 DEF Keeps
  <2>4. t \in DOMAIN asm' /\ asm'[t] = asm[t] /\ cb'[t] = cb[t]
    BY <1>5, <2>1
  <2>5. Built(t)'
    <3>1. Assembles(b, t)
      BY <1>11, <1>12, <1>13, <1>17 DEF Assembles
    <3>2. Assembles(obj[asm[t]], t)'
      BY <1>3, <1>14, <2>4, <3>1 DEF Assembles, Placed
    <3>3. IsChunked(t)' /\ sent'[t] > 0
      BY <1>3, <1>6, <1>10 DEF IsChunked
    <3>4. \A r \in Subs : ~InQueue(r, t, 0) => ~InQueue(r, t, 0)'
      BY <1>6
    <3>5. ~InQueue(cb[t], t, 0)'
      <4>1. PICK x \in Subs : x = cb[t]
        BY <1>10
      <4>2. ~InQueue(x, t, 0)'
        BY <1>10, <3>4, <4>1
      <4>. QED BY <2>4, <4>1, <4>2 DEF InQueue
    <3>. QED BY <1>6, <1>10, <2>4, <3>2, <3>3, <3>5 DEF Built
  <2>6. ASSUME NEW r \in Subs, t \notin broken', InOut(r, t) => InOut(r, t)' PROVE Progress(r, t)'
    <3>1. SUFFICES ASSUME r = s, Listeners[t] = {s} PROVE InOut(s, t)' \/ Advanced(s, t)'
      BY <1>6 DEF Progress
    <3>2. t \in Transfers \ broken
      BY <1>6, <1>15, <2>6
    <3>3. ~InQueue(s, t, 0)
      BY <1>10, <3>1
    <3>4. InOut(s, t) \/ Advanced(s, t)
      BY <1>6, <3>1, <3>2, <3>3 DEF ChunkInv, ProgressInv, Progress
    <3>5. ASSUME Advanced(s, t) PROVE Advanced(s, t)'
      <4>1. MessagesOf(t)' = MessagesOf(t)
        BY <1>3 DEF MessagesOf, IsChunked
      <4>2. ASSUME NEW j \in 0..MessagesOf(t)
            PROVE  j \in b.got <=> j + 1 < sent[t] /\ ~InQueue(s, t, j + 1)'
        <5>1. j \in a.got <=> j + 1 < sent[t] /\ ~InQueue(s, t, j + 1)
          BY <1>2, <3>5 DEF Advanced
        <5>2. InQueue(s, t, j + 1)' <=> InQueue(s, t, j + 1) /\ j + 1 # Num(m)
          BY <1>6, <1>7, <1>1 DEF TakesOut
        <5>3. j + 1 = Num(m) <=> j = i
          BY <1>7, <1>8
        <5>. QED BY <1>6, <1>8, <1>11, <5>1, <5>2, <5>3
      <4>. QED BY <1>3, <1>14, <2>4, <4>1, <4>2 DEF Advanced
    <3>. QED BY <2>6, <3>1, <3>4, <3>5
  <2>7. Settled({}, t)
    BY <1>6, <1>16, <2>4, <2>5, <2>6 DEF Settled
  <2>. QED BY <1>6, <2>2, <2>3, <2>7, OnlyOne
<1>18. CASE IsComplete(b) /\ Forget(swept \cup {t}, {})
  <2>1. /\ DOMAIN asm' = DOMAIN asm \ (swept \cup {t})
        /\ \A u \in DOMAIN asm' : asm'[u] = asm[u] /\ cb'[u] = cb[u]
    BY <1>18, ForgetFacts DEF ChunkInv
  <2>2. [id |-> t, data |-> b.buf] = Item(t)
    <3>1. b.buf = Payload(t)
      BY <1>6, <1>7, <1>11, <1>13, <1>18, CompleteIsPayload
    <3>. QED BY <3>1 DEF Item
  <2>3. ~Handed(cb[t], t)
    BY <1>10, <1>16
  <2>4. PICK x \in Subs : x = cb[t]
    BY <1>10
  <2>5. Delivers({x}, t) /\ (x = s => InOut(s, t)')
    <3>1. CASE cb[t] = s
      <4>1. Drain(s, <<Item(t)>>)
        BY <1>5, <1>18, <2>2, <3>1
      <4>. QED BY <1>6, <2>3, <2>4, <3>1, <4>1, DrainDelivers DEF ChunkInv
    <3>2. CASE cb[t] # s
      <4>1. /\ out' = [out EXCEPT ![s] = @ \o ready[s]]
            /\ ready' = [ready EXCEPT ![s] = <<>>, ![x] = @ \o <<Item(t)>>]
        BY <1>5, <1>18, <2>2, <2>4, <3>2
      <4>. QED BY <1>6, <2>3, <2>4, <3>2, <4>1, PassDelivers DEF ChunkInv
    <3>. QED BY <3>1, <3>2
  <2>6. Keeps(t)
    BY <1>3, <1>5, <1>6, <1>14, <1>15, <2>1 DEF Keeps
  <2>7. Settled({x}, t)
    <3>1. ~InQueue(x, t, 0)'
      BY <1>6, <1>10, <2>4
    <3>2. \A r \in Subs : Progress(r, t)'
      BY <1>6, <1>10, <2>4, <2>5 DEF Progress
    <3>. QED BY <1>6, <1>16, <2>1, <3>1, <3>2 DEF Settled
  <2>. QED BY <1>6, <2>5, <2>6, <2>7, OnlyOne
<1>. QED BY <1>5, <1>17, <1>18

(* cancel() breaks its transfer. *)
LEMMA Cancelling ==
  ASSUME ChunkInv, NEW t \in Transfers, Cancel(t)
  PROVE  Kept
<1>0. /\ UNCHANGED <<size, sent, q, obj, ready, out>> /\ Forget({t}, {}) /\ broken' = broken \cup {t}
  BY DEF Cancel
<1>1. DOMAIN asm' = DOMAIN asm \ {t} /\ \A u \in DOMAIN asm' : asm'[u] = asm[u] /\ cb'[u] = cb[u]
  BY <1>0, ForgetFacts DEF ChunkInv
<1>2. Delivers({}, t)
  BY <1>0, KeepDelivers DEF ChunkInv
<1>3. \A r \in Subs, u \in Transfers, k \in Nat : InQueue(r, u, k)' <=> InQueue(r, u, k)
  BY <1>0 DEF InQueue
<1>4. Keeps(t)
  BY <1>0, <1>1, <1>3 DEF Keeps, ChunkInv, SizeInv, BuildInv
<1>5. Settled({}, t)
  BY <1>0, <1>1, <1>3 DEF Settled, ChunkInv, OnceInv
<1>6. QueueInv' /\ GapInv'
  <2>1. QueueInv'
    BY <1>0 DEF ChunkInv, QueueInv, Ordered, Expected, WellFormed, IsChunked, Num
  <2>2. GapInv'
    BY <1>0 DEF ChunkInv, GapInv, InQueue
  <2>. QED BY <2>1, <2>2
<1>. QED BY <1>2, <1>4, <1>5, <1>6, OnlyOne

(* A teardown breaks whatever was published. *)
LEMMA TearingDown ==
  ASSUME ChunkInv, Teardown
  PROVE  Kept
<1>0. /\ asm' = <<>> /\ q' = [s \in Subs |-> <<>>] /\ ready' = [s \in Subs |-> <<>>]
      /\ broken' = broken \cup {t \in Transfers : sent[t] > 0} /\ UNCHANGED <<size, sent, obj, out>>
  BY DEF Teardown
<1>1. \A r \in Subs, u \in Transfers, k \in Nat : ~InQueue(r, u, k)'
  BY <1>0 DEF InQueue
<1>2. DOMAIN asm' = {}
  BY <1>0
<1>3. SizeInv'
  BY <1>0 DEF ChunkInv, SizeInv, MessagesOf, IsChunked
<1>4. QueueInv'
  BY <1>0 DEF QueueInv, Ordered
<1>5. GapInv'
  <2>1. \A t \in Transfers : \A s \in Listeners[t] : s \in Subs
    BY ChunkingAssumption
  <2>2. \A t \in Transfers : 0..sent'[t] \subseteq Nat
    BY <1>0, SizeFacts DEF ChunkInv
  <2>. QED BY <1>1, <2>1, <2>2 DEF GapInv
<1>6. BuildInv'
  BY <1>0, <1>2 DEF ChunkInv, BuildInv, IsAssembler
<1>7. ItemInv'
  BY <1>0 DEF ChunkInv, ItemInv, Items, Item, Payload
<1>8. OnceInv'
  <2>1. \A s \in Subs, t \in Transfers : ~InReady(s, t)' /\ (InOut(s, t)' <=> InOut(s, t))
    BY <1>0 DEF InReady, InOut, Has
  <2>2. \A s \in Subs : NoTwice(out[s])' /\ NoTwice(ready[s])'
    BY <1>0 DEF ChunkInv, OnceInv, NoTwice
  <2>3. \A s \in Subs, t \in Transfers : Handed(s, t)' => Handed(s, t)
    BY <2>1 DEF Handed
  <2>4. \A s \in Subs, t \in Transfers : Handed(s, t)' => sent'[t] > 0
    BY <1>0, <2>3 DEF ChunkInv, OnceInv
  <2>. QED BY <1>1, <1>2, <2>1, <2>2, <2>4 DEF OnceInv
<1>9. ProgressInv'
  BY <1>0 DEF ProgressInv, Progress
<1>. QED BY <1>3, <1>4, <1>5, <1>6, <1>7, <1>8, <1>9 DEF Kept

(* Steps that leave the messages, the assemblers and the handlers alone. *)
LEMMA Unchanged ==
  ASSUME ChunkInv, UNCHANGED <<size, sent, q, asm, obj, cb, ready, out, broken>>
  PROVE  Kept
<1>1. SizeInv' /\ QueueInv' /\ GapInv'
  <2>1. SizeInv'
    BY DEF ChunkInv, SizeInv, MessagesOf, IsChunked
  <2>2. QueueInv'
    BY DEF ChunkInv, QueueInv, Ordered, Expected, WellFormed, IsChunked, Num
  <2>3. GapInv'
    BY DEF ChunkInv, GapInv, InQueue, Num
  <2>. QED BY <2>1, <2>2, <2>3
<1>2. BuildInv' /\ ItemInv'
  BY DEF ChunkInv, BuildInv, IsAssembler, Built, Assembles, Placed, IsChunked, InQueue, Num, ItemInv, Items,
     Item, Payload
<1>3. OnceInv'
  <2>1. \A s \in Subs : NoTwice(out[s])' /\ NoTwice(ready[s])'
    BY DEF ChunkInv, OnceInv, NoTwice
  <2>2. \A s \in Subs, t \in Transfers :
           /\ (InOut(s, t)' <=> InOut(s, t)) /\ (InReady(s, t)' <=> InReady(s, t))
           /\ (Handed(s, t)' <=> Handed(s, t)) /\ (InQueue(s, t, 0)' <=> InQueue(s, t, 0))
    BY DEF Handed, InOut, InReady, Has, InQueue, Num
  <2>. QED BY <2>1, <2>2 DEF ChunkInv, OnceInv
<1>4. ProgressInv'
  BY DEF ChunkInv, ProgressInv, Progress, Advanced, MessagesOf, IsChunked, InOut, Has, InQueue, Num
<1>. QED BY <1>1, <1>2, <1>3, <1>4 DEF Kept

-----------------------------------------------------------------------------
(* The theorems. *)

(* The invariant holds at first. *)
LEMMA ChunkInit == Init => ChunkInv
<1>. SUFFICES ASSUME Init PROVE ChunkInv
  OBVIOUS
<1>1. Bookkeeping /\ AliasInv
  BY BookInit, AliasInit
<1>2. /\ size \in [Transfers -> Sizes] /\ sent = [t \in Transfers |-> 0] /\ q = [s \in Subs |-> <<>>]
      /\ asm = <<>> /\ obj = [o \in Objs |-> NewAssembler] /\ broken = {}
      /\ ready = [s \in Subs |-> <<>>] /\ out = [s \in Subs |-> <<>>]
  BY DEF Init
<1>3. SizeInv
  <2>1. \A t \in Transfers : size[t] \in Nat \ {0}
    BY <1>2, ChunkingAssumption
  <2>2. \A t \in Transfers : MessagesOf(t) \in Nat
    BY <2>1, ChunkCountType DEF MessagesOf
  <2>. QED BY <1>2, <2>2 DEF SizeInv
<1>4. QueueInv
  BY <1>2 DEF QueueInv, Ordered
<1>5. GapInv
  <2>1. \A s \in Subs, t \in Transfers, k \in Nat : ~InQueue(s, t, k)
    BY <1>2 DEF InQueue
  <2>2. \A t \in Transfers : \A s \in Listeners[t] : s \in Subs
    BY ChunkingAssumption
  <2>3. \A t \in Transfers : sent[t] = 0
    BY <1>2
  <2>. QED BY <2>1, <2>2, <2>3 DEF GapInv
<1>6. BuildInv
  <2>1. IsAssembler(NewAssembler)
    BY DEF IsAssembler, NewAssembler
  <2>2. DOMAIN asm = {}
    BY <1>2
  <2>. QED BY <1>2, <2>1, <2>2 DEF BuildInv
<1>7. ItemInv
  BY <1>2 DEF ItemInv
<1>8. OnceInv
  BY <1>2 DEF OnceInv, NoTwice, Handed, InOut, InReady, Has
<1>9. ProgressInv
  BY <1>2 DEF ProgressInv, Progress
<1>. QED BY <1>1, <1>3, <1>4, <1>5, <1>6, <1>7, <1>8, <1>9 DEF ChunkInv

(* Every step preserves the invariant. *)
LEMMA ChunkStep == ChunkInv /\ [Next]_vars => ChunkInv'
<1>. SUFFICES ASSUME ChunkInv, [Next]_vars PROVE ChunkInv'
  OBVIOUS
<1>1. Bookkeeping' /\ AliasInv'
  BY BookStep, AliasStep DEF ChunkInv
<1>2. Kept
  <2>1. ASSUME NEW t \in Transfers, Publish(t) PROVE Kept
    BY <2>1, Publishing DEF Kept
  <2>2. ASSUME NEW t \in Transfers, GrowOld(t) PROVE Kept
    BY <2>2, Unchanged DEF GrowOld
  <2>3. ASSUME NEW t \in Transfers, Cancel(t) PROVE Kept
    BY <2>3, Cancelling
  <2>4. ASSUME NEW s \in Subs, HandlePlain(s) PROVE Kept
    BY <2>4, HandlingPlain
  <2>5. ASSUME NEW s \in Subs, HandleHeader(s) PROVE Kept
    BY <2>5, HandlingHeader
  <2>6. ASSUME NEW s \in Subs, ChunkUnknown(s) PROVE Kept
    BY <2>6, HandlingUnknown
  <2>7. ASSUME NEW s \in Subs, ChunkKnown(s) PROVE Kept
    BY <2>7, HandlingKnown
  <2>8. CASE Teardown
    BY <2>8, TearingDown
  <2>9. CASE UNCHANGED vars
    BY <2>9, Unchanged DEF vars
  <2>. QED BY <2>1, <2>2, <2>3, <2>4, <2>5, <2>6, <2>7, <2>8, <2>9 DEF Next
<1>. QED BY <1>1, <1>2 DEF Kept, ChunkInv

(* Handlers are called with the payload that was sent. *)
LEMMA ChunkIntact == ChunkInv => Intact
<1>1. SUFFICES ASSUME ChunkInv, NEW s \in Subs, NEW k \in 1..Len(out[s])
               PROVE  out[s][k].data = Payload(out[s][k].id)
  BY DEF Intact
<1>2. out[s][k] \in Items
  BY <1>1 DEF ChunkInv, ItemInv
<1>. QED BY <1>2 DEF Items, Item

(* The invariant implies that the variables have their types. *)
LEMMA ChunkTypes == ChunkInv => TypeOK
<1>. SUFFICES ASSUME ChunkInv PROVE TypeOK
  OBVIOUS
<1>1. size \in [Transfers -> Sizes] /\ \A t \in Transfers : sent[t] \in 0..MessagesOf(t)
  <2>1. \A t \in Transfers : sent[t] \in Nat /\ MessagesOf(t) \in Nat /\ sent[t] <= MessagesOf(t)
    BY SizeFacts DEF ChunkInv
  <2>. QED BY <2>1 DEF ChunkInv, SizeInv
<1>2. \A s \in Subs : \A k \in 1..Len(q[s]) : q[s][k].id \in Transfers
  <2>1. SUFFICES ASSUME NEW s \in Subs, NEW k \in 1..Len(q[s]) PROVE q[s][k].id \in Transfers
    OBVIOUS
  <2>2. q[s][k] \in Messages
    BY DEF ChunkInv, QueueInv
  <2>. QED BY <2>2, NumType
<1>3. DOMAIN asm \subseteq Transfers /\ \A t \in DOMAIN asm : asm[t] \in Objs /\ cb[t] \in Subs
  BY DEF ChunkInv, BuildInv, Built, AliasInv, ObjInv
<1>4. DOMAIN cb = DOMAIN asm /\ old \subseteq DOMAIN asm
  BY DEF ChunkInv, Bookkeeping
<1>5. \A o \in Objs : /\ obj[o].got \subseteq Nat /\ obj[o].total \in Nat
                      /\ \A j \in DOMAIN obj[o].buf : obj[o].buf[j] \in Bytes
  BY DEF ChunkInv, BuildInv, IsAssembler
<1>6. pool \subseteq Objs /\ broken \subseteq Transfers /\ DOMAIN ready = Subs /\ DOMAIN out = Subs
  BY DEF ChunkInv, AliasInv, ObjInv, SizeInv, ItemInv
<1>. QED BY <1>1, <1>2, <1>3, <1>4, <1>5, <1>6 DEF TypeOK

(* With all chunks counted the assembler would be complete and gone. *)
LEMMA ChunkArrived ==
  ASSUME ChunkInv, NEW t \in Transfers, NEW s \in Subs, Listeners[t] = {s}
  PROVE  Arrived(t, s)
<1>1. SUFFICES ASSUME t \notin broken, sent[t] = MessagesOf(t), \A k \in 1..Len(q[s]) : q[s][k].id # t
               PROVE  InOut(s, t)
  BY DEF Arrived, InOut, Has
<1>2. \A k \in Nat : ~InQueue(s, t, k)
  BY <1>1 DEF InQueue
<1>3. MessagesOf(t) \in Nat \ {0} /\ TotalChunks(size[t]) \in Nat \ {0}
  BY SizeFacts DEF ChunkInv
<1>4. InOut(s, t) \/ Advanced(s, t)
  BY <1>1, <1>2, <1>3 DEF ChunkInv, ProgressInv, Progress
<1>5. ASSUME Advanced(s, t) PROVE FALSE
  <2>1. t \in DOMAIN asm /\ \A i \in 0..MessagesOf(t) : i + 1 < MessagesOf(t) => i \in obj[asm[t]].got
    BY <1>1, <1>2, <1>3, <1>5 DEF Advanced
  <2>2. IsChunked(t) /\ Assembles(obj[asm[t]], t)
    BY <2>1 DEF ChunkInv, BuildInv, Built
  <2>3. MessagesOf(t) = 1 + TotalChunks(size[t])
    BY <2>2 DEF MessagesOf
  <2>4. \A i \in 0..(TotalChunks(size[t]) - 1) : i \in obj[asm[t]].got
    BY <1>3, <2>1, <2>3
  <2>. QED BY <2>2, <2>4 DEF Assembles
<1>. QED BY <1>4, <1>5

(* Whatever a handler is called with are the bytes that were sent, in
   whatever order subscriptions work through their chunks, transfers are swept,
   restarted or cancelled, and assemblers are taken from the pool and put back. *)
THEOREM IntactAlways == Spec => []Intact
  BY ChunkInit, ChunkStep, ChunkIntact, PTL DEF Spec

(* A handler is called at most once for a message, and a message with one
   listener that was published as a whole, and not swept, cancelled or torn
   down, has reached its handler once the queue holds nothing more of it. *)
THEOREM DeliveredOnceAlways == Spec => []DeliveredOnce
<1>1. ChunkInv => DeliveredOnce
  <2>. SUFFICES ASSUME ChunkInv PROVE DeliveredOnce
    OBVIOUS
  <2>1. Once
    BY DEF ChunkInv, OnceInv, NoTwice, Once
  <2>2. ASSUME NEW t \in Transfers, NEW s \in Listeners[t], Listeners[t] = {s} PROVE Arrived(t, s)
    <3>1. s \in Subs
      BY ChunkingAssumption
    <3>. QED BY <2>2, <3>1, ChunkArrived
  <2>. QED BY <2>1, <2>2, ChunkTypes DEF DeliveredOnce
<1>. QED BY <1>1, ChunkInit, ChunkStep, PTL DEF Spec
=============================================================================
