------------------------------ MODULE Chunking ------------------------------
(***************************************************************************)
(* Automatic chunking between two Python clients: publish() splits what    *)
(* exceeds the payload limit, the message handler of every subscription    *)
(* feeds the one ChunkingManager of its client, and the manager            *)
(* reassembles transfers in pooled assemblers and sweeps the stale ones.   *)
(*                                                                         *)
(* A byte of a payload is the pair of its transfer and its position, so a  *)
(* byte in the wrong place is seen.  Time is the set of transfers whose    *)
(* last activity is older than the time to live.                           *)
(***************************************************************************)
EXTENDS Naturals, Sequences, FiniteSets

CONSTANTS
    Transfers,      \* messages that are published, with fresh transfer ids
    Subs,           \* subscriptions of the receiving client
    Listeners,      \* the subscriptions on the subject of each message
    ChunkSize,      \* max_payload_size
    Sizes,          \* encoded sizes of the messages
    Objs,           \* identities of ChunkAssembler objects
    PoolLimit       \* size limit of the assembler pool (10 in the code)

ASSUME ChunkingAssumption ==
    /\ Listeners \in [Transfers -> SUBSET Subs]
    /\ ChunkSize \in Nat \ {0}
    /\ Sizes \subseteq Nat \ {0}
    /\ PoolLimit \in Nat
    /\ IsFiniteSet(Objs)

VARIABLES
    size,       \* encoded size of each message
    sent,       \* how many messages of a transfer were published
    q,          \* messages of each subscription not yet handled
    asm,        \* self.assemblers: transfer -> assembler object
    obj,        \* the assembler objects
    pool,       \* self._assembler_pool
    cb,         \* self.completed_callbacks: transfer -> subscription
    act,        \* keys of self._last_activity
    old,        \* transfers idle for longer than _STALE_TRANSFER_TTL
    ready,      \* assembled_queue of each subscription
    out,        \* what the handler of each subscription was called with
    broken      \* transfers that lost a message, timed out or were cancelled

mgrVars == <<asm, obj, pool, cb, act, old>>
vars == <<size, sent, q, asm, obj, pool, cb, act, old, ready, out, broken>>

-----------------------------------------------------------------------------
(* The sender. *)

TotalChunks(n) == (n + ChunkSize - 1) \div ChunkSize

IsChunked(t) == size[t] > ChunkSize

(* Chunk i of create_chunks(): the bytes start..end-1 of the payload. *)
ChunkStart(i) == i * ChunkSize
ChunkEnd(n, i) == IF ChunkStart(i) + ChunkSize < n THEN ChunkStart(i) + ChunkSize ELSE n
ChunkBytes(t, i) ==
    [k \in 0..(ChunkEnd(size[t], i) - ChunkStart(i) - 1) |-> <<t, ChunkStart(i) + k>>]

(* The k-th message publish() sends for t: one plain message, or a header and
   the chunks in order. *)
MessagesOf(t) == IF IsChunked(t) THEN 1 + TotalChunks(size[t]) ELSE 1
Message(t, k) ==
    CASE ~IsChunked(t) -> [kind |-> "plain", id |-> t]
      [] IsChunked(t) /\ k = 0 -> [kind |-> "header", id |-> t]
      [] OTHER -> [kind |-> "chunk", id |-> t, index |-> k - 1]

Payload(t) == [j \in 0..(size[t] - 1) |-> <<t, j>>]

(* A byte of a bytearray that was not written. *)
Zero == <<>>
NewAssembler == [id |-> "none", got |-> {}, total |-> 0, buf |-> <<>>]

Init ==
    /\ size \in [Transfers -> Sizes]
    /\ sent = [t \in Transfers |-> 0]
    /\ q = [s \in Subs |-> <<>>]
    /\ asm = <<>>
    /\ obj = [o \in Objs |-> NewAssembler]
    /\ pool = {}
    /\ cb = <<>>
    /\ act = {}
    /\ old = {}
    /\ ready = [s \in Subs |-> <<>>]
    /\ out = [s \in Subs |-> <<>>]
    /\ broken = {}

Delivered(t) ==
    [s \in Subs |-> IF s \in Listeners[t] THEN Append(q[s], Message(t, sent[t])) ELSE q[s]]

(* One nc.publish() of publish(); the tasks of several transfers interleave.
   Every subscription on the subject gets the message, or a connection loss
   takes it from all of them. *)
Publish(t) ==
    /\ sent[t] < MessagesOf(t)
    /\ sent' = [sent EXCEPT ![t] = @ + 1]
    /\ \/ /\ q' = Delivered(t)
          /\ UNCHANGED broken
       \/ /\ broken' = broken \cup {t}
          /\ UNCHANGED q
    /\ UNCHANGED <<size, mgrVars, ready, out>>

-----------------------------------------------------------------------------
(* ChunkingManager. *)

RestrictTo(f, S) == [x \in S |-> f[x]]

(* Time passes without a chunk of t. *)
GrowOld(t) ==
    /\ t \in act \ old
    /\ old' = old \cup {t}
    /\ UNCHANGED <<size, sent, q, asm, obj, pool, cb, act, ready, out, broken>>

(* _sweep_stale() drops every old transfer, or nothing within a second of the
   last sweep. *)
SweptSets == {{}, old}

(* _return_assembler(): pool objects up to the limit. *)
PoolsAfter(released) ==
    {p \in SUBSET (pool \cup released) :
        /\ pool \subseteq p
        /\ p = pool \cup released \/ Cardinality(p) = PoolLimit
        /\ Cardinality(p) <= PoolLimit}

ObjectsOf(ts) == {asm[t] : t \in ts \cap DOMAIN asm}

(* Mutants of Forget: the activity stamp, or the assembler, stays behind. *)
ForgetKeepsActivity(ts, touched) ==
    /\ asm' = RestrictTo(asm, DOMAIN asm \ ts)
    /\ cb' = RestrictTo(cb, DOMAIN cb \ ts)
    /\ old' = old \ (ts \cup touched)
    /\ pool' \in PoolsAfter(ObjectsOf(ts))
    /\ UNCHANGED act

ForgetKeepsAssembler(ts, touched) ==
    /\ cb' = RestrictTo(cb, DOMAIN cb \ ts)
    /\ act' = act \ ts
    /\ old' = old \ (ts \cup touched)
    /\ pool' \in PoolsAfter(ObjectsOf(ts))
    /\ UNCHANGED asm

(* The dictionaries without the transfers ts, their assemblers pooled, and
   the activity of the transfers in touched renewed. *)
Forget(ts, touched) ==
    /\ asm' = RestrictTo(asm, DOMAIN asm \ ts)
    /\ cb' = RestrictTo(cb, DOMAIN cb \ ts)
    /\ act' = act \ ts
    /\ old' = old \ (ts \cup touched)
    /\ pool' \in PoolsAfter(ObjectsOf(ts))

(* start_receiving(): sweep, take an assembler from the pool or a new one,
   reset it, and register it under the id, over an earlier one if any. *)
StartReceiving(s, t, swept) ==
    \E p \in PoolsAfter(ObjectsOf(swept)) :
    \E o \in IF p # {} THEN p
             ELSE Objs \ {asm[u] : u \in DOMAIN asm \ swept} :
       /\ pool' = p \ {o}
       /\ obj' = [obj EXCEPT ![o] = [id |-> t, got |-> {}, total |-> TotalChunks(size[t]),
                                      buf |-> [j \in 0..(size[t] - 1) |-> Zero]]]
       /\ asm' = [u \in (DOMAIN asm \ swept) \cup {t} |-> IF u = t THEN o ELSE asm[u]]
       /\ cb' = [u \in (DOMAIN cb \ swept) \cup {t} |-> IF u = t THEN s ELSE cb[u]]
       /\ act' = (act \ swept) \cup {t}
       /\ old' = old \ (swept \cup {t})

(* Mutant of AddChunk: the offset is computed from the chunk's own length. *)
AddChunkOwnLength(a, i, bytes) ==
    LET n == Cardinality(DOMAIN bytes)
    IN [a EXCEPT !.got = @ \cup {i},
                 !.buf = [j \in DOMAIN @ |-> IF j >= i * n /\ j < i * n + n
                                             THEN bytes[j - i * n] ELSE @[j]]]

(* add_chunk(): write the bytes at index * chunk_size, cut off at the end of
   the buffer, and count the index. *)
AddChunk(a, i, bytes) ==
    LET offset == i * ChunkSize
        n == Cardinality(DOMAIN bytes)
    IN [a EXCEPT !.got = @ \cup {i},
                 !.buf = [j \in DOMAIN @ |-> IF j >= offset /\ j < offset + n
                                             THEN bytes[j - offset] ELSE @[j]]]

(* Mutant of IsComplete: it waits for one chunk more. *)
IsCompleteLate(a) == Cardinality(a.got) > a.total

IsComplete(a) == Cardinality(a.got) = a.total

(* The "while assembled_queue" loop after a chunk: the handler of s is called
   with what became ready, in order. *)
Drain(s, item) ==
    /\ out' = [out EXCEPT ![s] = @ \o ready[s] \o item]
    /\ ready' = [ready EXCEPT ![s] = <<>>]

-----------------------------------------------------------------------------
(* message_handler() of a subscription: one message of its queue. *)

Receive(s, kind) ==
    /\ q[s] # <<>> /\ Head(q[s]).kind = kind
    /\ q' = [q EXCEPT ![s] = Tail(@)]

HandlePlain(s) ==
    /\ Receive(s, "plain")
    /\ LET t == Head(q[s]).id IN
       out' = [out EXCEPT ![s] = Append(@, [id |-> t, data |-> Payload(t)])]
    /\ UNCHANGED <<size, sent, mgrVars, ready, broken>>

HandleHeader(s) ==
    /\ Receive(s, "header")
    /\ \E swept \in SweptSets :
          /\ StartReceiving(s, Head(q[s]).id, swept)
          /\ broken' = broken \cup swept
    /\ UNCHANGED <<size, sent, ready, out>>

(* process_chunk() for an id that is unknown, or swept by this very call. *)
ChunkUnknown(s) ==
    /\ Receive(s, "chunk")
    /\ \E swept \in SweptSets :
          /\ Head(q[s]).id \notin DOMAIN asm \ swept
          /\ Forget(swept, {})
          /\ broken' = broken \cup swept
    /\ Drain(s, <<>>)
    /\ UNCHANGED <<size, sent, obj>>

(* process_chunk() for a transfer that is being assembled.  When the chunk
   completes it, the transfer is forgotten, its assembler pooled, and the data
   queued for the subscription whose header came last; only the subscription
   that handled the chunk drains its queue. *)
ChunkKnown(s) ==
    /\ Receive(s, "chunk")
    /\ LET t == Head(q[s]).id
           i == Head(q[s]).index
           a == AddChunk(obj[asm[t]], i, ChunkBytes(t, i))
           item == <<[id |-> t, data |-> a.buf]>>
       IN \E swept \in SweptSets :
          /\ t \in DOMAIN asm \ swept
          /\ obj' = [obj EXCEPT ![asm[t]] = a]
          /\ broken' = broken \cup swept
          /\ \/ /\ ~IsComplete(a)
                /\ Forget(swept, {t})
                /\ Drain(s, <<>>)
             \/ /\ IsComplete(a)
                /\ Forget(swept \cup {t}, {})
                /\ IF cb[t] = s
                   THEN Drain(s, item)
                   ELSE /\ out' = [out EXCEPT ![s] = @ \o ready[s]]
                        /\ ready' = [ready EXCEPT ![s] = <<>>, ![cb[t]] = @ \o item]
    /\ UNCHANGED <<size, sent>>

(* cancel(): _handle_error() drops the transfer. *)
Cancel(t) ==
    /\ t \in DOMAIN asm
    /\ Forget({t}, {})
    /\ broken' = broken \cup {t}
    /\ UNCHANGED <<size, sent, q, obj, ready, out>>

(* disconnect() and suspend() install a fresh ChunkingManager, and with the
   transport goes what the subscriptions had not handled. *)
Teardown ==
    /\ asm' = <<>> /\ cb' = <<>> /\ act' = {} /\ old' = {} /\ pool' = {}
    /\ q' = [s \in Subs |-> <<>>]
    /\ ready' = [s \in Subs |-> <<>>]
    /\ broken' = broken \cup {t \in Transfers : sent[t] > 0}
    /\ UNCHANGED <<size, sent, obj, out>>

Next ==
    \/ \E t \in Transfers : Publish(t) \/ GrowOld(t) \/ Cancel(t)
    \/ \E s \in Subs : HandlePlain(s) \/ HandleHeader(s)
                       \/ ChunkUnknown(s) \/ ChunkKnown(s)
    \/ Teardown

Spec == Init /\ [][Next]_vars

-----------------------------------------------------------------------------
(* Properties. *)

Bytes == (Transfers \X Nat) \cup {Zero}

TypeOK ==
    /\ size \in [Transfers -> Sizes]
    /\ \A t \in Transfers : sent[t] \in 0..MessagesOf(t)
    /\ \A s \in Subs : \A k \in 1..Len(q[s]) : q[s][k].id \in Transfers
    /\ DOMAIN asm \subseteq Transfers /\ \A t \in DOMAIN asm : asm[t] \in Objs
    /\ DOMAIN cb \subseteq Transfers /\ \A t \in DOMAIN cb : cb[t] \in Subs
    /\ \A o \in Objs : /\ obj[o].got \subseteq Nat /\ obj[o].total \in Nat
                      /\ \A j \in DOMAIN obj[o].buf : obj[o].buf[j] \in Bytes
    /\ pool \subseteq Objs
    /\ old \subseteq Transfers /\ broken \subseteq Transfers
    /\ DOMAIN ready = Subs /\ DOMAIN out = Subs

(* The handlers of a transfer and its activity stamp come and go with its
   assembler: completion, sweep, cancel() and a repeated header leave nothing
   of it behind in the other dictionaries. *)
Bookkeeping == DOMAIN asm = DOMAIN cb /\ DOMAIN asm = act /\ old \subseteq act

(* _get_assembler()/_return_assembler(): an object in the pool assembles
   nothing, two transfers never share one, and the pool respects its limit. *)
NoAliasing ==
    /\ \A t \in DOMAIN asm : asm[t] \notin pool /\ obj[asm[t]].id = t
    /\ Cardinality(pool) <= PoolLimit

(* add_chunk(), get_data(): whatever order chunks come in and whichever
   subscription delivers them, a handler gets the bytes that were sent. *)
Intact ==
    \A s \in Subs : \A k \in 1..Len(out[s]) : out[s][k].data = Payload(out[s][k].id)

(* No handler is called twice for one message. *)
Once ==
    \A s \in Subs : \A k, l \in 1..Len(out[s]) : out[s][k].id = out[s][l].id => k = l

(* A message that was published and received as a whole and not swept or
   cancelled has reached the handler of s, if s has worked through it. *)
Arrived(t, s) ==
    (/\ t \notin broken /\ sent[t] = MessagesOf(t)
     /\ \A k \in 1..Len(q[s]) : q[s][k].id # t)
        => \E k \in 1..Len(out[s]) : out[s][k].id = t

(* Whole messages reach the one subscription on their subject, once, while
   the other subscriptions of the client feed the same ChunkingManager.  (Of two
   subscriptions on one subject the later header takes the message away from
   the other.) *)
DeliveredOnce ==
    /\ TypeOK /\ Once
    /\ \A t \in Transfers : \A s \in Listeners[t] : Listeners[t] = {s} => Arrived(t, s)
=============================================================================
