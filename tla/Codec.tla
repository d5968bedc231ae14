-------------------------------- MODULE Codec --------------------------------
(***************************************************************************)
(* The wire codec of the Python client: msgpack with its conversions, and  *)
(* the CUIB frame, which carries large binaries after the envelope.        *)
(*                                                                         *)
(* Every pass of the codec walks a value depth first and only ever changes *)
(* its leaves, so a value is the sequence of its leaves in that order, each*)
(* with its place: <<place, <<kind, x>>>>.  The kinds are int, str, bin    *)
(* (x is the sequence of the bytes; a memoryview is the same value), none, *)
(* date, datetime, time, enum (x is its value), undefined (of other lang-  *)
(* uages), object (nothing msgpack knows) and dict, for a map with the key *)
(* __cui_bin__ whose entries are integers: x is <<index, l, size>>.        *)
(***************************************************************************)
EXTENDS Integers, Sequences, SequencesExt

CONSTANT Threshold      \* BINARY_EXTRACT_THRESHOLD, scaled down

ASSUME CodecAssumption == Threshold \in Nat \ {0}

None == <<"none", 0>>
Bin(bytes) == <<"bin", bytes>>

(* f on every leaf, and what a leaf at a place is. *)
MapLeaves(v, f(_)) == [i \in DOMAIN v |-> <<v[i][1], f(v[i][2])>>]
At(v, place) == LET leaves == {i \in DOMAIN v : v[i][1] = place}
                IN IF leaves = {} THEN None ELSE v[CHOOSE i \in leaves : TRUE][2]

-----------------------------------------------------------------------------
(* msgpack: encode(), decode() and their hooks. *)

Packable(v) == \A i \in DOMAIN v : v[i][2][1] # "object"

(* What arrives of a leaf.  ormsgpack itself packs a date and a time as text
   (the branches of _default_handler() for them are never reached) and hands
   an Enum to the handler, whose value it packs in turn; an unknown extension
   type is None. *)
PackedLeaf(x) ==
    LET given == IF x[1] = "enum" THEN x[2] ELSE x IN
    CASE given[1] \in {"date", "time"} -> <<"str", given[2]>>
      [] given[1] = "undefined" -> None
      [] OTHER -> given

Packed(v) == MapLeaves(v, PackedLeaf)

-----------------------------------------------------------------------------
(* Encoding. *)

Placeholder(index, length) == <<"dict", <<index, length, 2>>>>

(* _as_extractable_segment(); the value of an Enum is not looked at. *)
Extractable(x) == x[1] = "bin" /\ Len(x[2]) >= Threshold

(* Mutant of Extracted: a segment goes before the others. *)
ExtractedReversed(v) ==
    LET walk[n \in 0..Len(v)] ==
            IF n = 0 THEN [value |-> <<>>, count |-> 0, payload |-> <<>>]
            ELSE LET a == walk[n - 1]
                     x == v[n][2]
                 IN IF Extractable(x)
                      THEN [value |-> Append(a.value, <<v[n][1], Placeholder(a.count, Len(x[2]))>>),
                            count |-> a.count + 1, payload |-> x[2] \o a.payload]
                      ELSE [a EXCEPT !.value = Append(@, v[n])]
    IN walk[Len(v)]

(* _extract_binaries(): the transformed value, and the segments: their number
   and their bytes one after the other. *)
Extracted(v) ==
    LET walk[n \in 0..Len(v)] ==
            IF n = 0 THEN [value |-> <<>>, count |-> 0, payload |-> <<>>]
            ELSE LET a == walk[n - 1]
                     x == v[n][2]
                 IN IF Extractable(x)
                      THEN [value |-> Append(a.value, <<v[n][1], Placeholder(a.count, Len(x[2]))>>),
                            count |-> a.count + 1, payload |-> a.payload \o x[2]]
                      ELSE [a EXCEPT !.value = Append(@, v[n])]
    IN walk[Len(v)]

(* encode_message(): without a segment, plain msgpack. *)
EncodeMessage(v) ==
    LET x == Extracted(v) IN [framed |-> x.count > 0, envelope |-> Packed(x.value), payload |-> x.payload]

(* External: the encoder of another language, which writes the entries of a
   map in another order than it walked them for the segments. *)
EncodeElsewhere(v) == [EncodeMessage(v) EXCEPT !.envelope = Reverse(@)]

-----------------------------------------------------------------------------
(* Decoding. *)

Index(x) == x[2][1]
Length(x) == x[2][2]

(* _is_binary_placeholder(): exactly the two entries. *)
IsPlaceholder(x) == x[1] = "dict" /\ x[2][3] = 2 /\ Index(x) >= 0 /\ Length(x) >= 0

Slice(payload, offset, length) == Bin(SubSeq(payload, offset + 1, offset + length))

(* _restore_sequential() with its _RestoreState: each segment in order, until
   one is out of order or too long. *)
RestoreLeaf(state, payload, leaf) ==
    LET x == leaf[2] IN
    IF state.failed THEN state
    ELSE IF ~IsPlaceholder(x) THEN [state EXCEPT !.value = Append(@, leaf)]
    ELSE IF state.outOfOrder \/ Index(x) # state.next
           THEN [state EXCEPT !.value = Append(@, leaf), !.outOfOrder = TRUE]
    ELSE IF state.offset + Length(x) > Len(payload) THEN [state EXCEPT !.failed = TRUE]
    ELSE [state EXCEPT !.value = Append(@, <<leaf[1], Slice(payload, state.offset, Length(x))>>),
                       !.offset = @ + Length(x),
                       !.next = @ + 1]

RestoreSequential(v, payload) ==
    LET walk[n \in 0..Len(v)] ==
            IF n = 0 THEN [value |-> <<>>, offset |-> 0, next |-> 0, outOfOrder |-> FALSE, failed |-> FALSE]
                     ELSE RestoreLeaf(walk[n - 1], payload, v[n])
    IN walk[Len(v)]

(* _collect_segment_lengths(): index to length, the last one where two maps
   have the same index. *)
Lengths(v) ==
    LET at == {i \in DOMAIN v : IsPlaceholder(v[i][2])}
        Latest(n) == CHOOSE i \in at : Index(v[i][2]) = n /\ \A j \in at : Index(v[j][2]) = n => j <= i
    IN [n \in {Index(v[i][2]) : i \in at} |-> Length(v[Latest(n)][2])]

(* _restore_by_index(). *)
RestoreByIndex(v, views) == MapLeaves(v, LAMBDA x : IF IsPlaceholder(x) THEN views[Index(x)] ELSE x)

(* _restore_remaining(): the segments that are left lie back to back in the
   order of their indices; one that is missing, too long or of an index that
   is already restored raises. *)
RestoreRemaining(state, payload) ==
    LET lengths == Lengths(state.value)
        last == CHOOSE i \in DOMAIN lengths : \A j \in DOMAIN lengths : j <= i
        indices == state.next..last
        End(i) == state.offset + SumFunctionOnSet(lengths, state.next..i)
        end == End(last)
        views == [i \in indices |-> Slice(payload, End(i) - lengths[i], lengths[i])]
    IN IF indices # DOMAIN lengths \/ end > Len(payload)
          THEN [state EXCEPT !.failed = TRUE]
          ELSE [state EXCEPT !.value = RestoreByIndex(@, views), !.offset = end]

Raises == <<<<"raises", None>>>>

(* decode_message(), or Raises. *)
DecodeMessage(w) ==
    LET first == RestoreSequential(w.envelope, w.payload)
        restored == IF first.outOfOrder /\ ~first.failed THEN RestoreRemaining(first, w.payload) ELSE first
    IN IF ~w.framed THEN w.envelope
       ELSE IF restored.failed \/ restored.offset # Len(w.payload) THEN Raises ELSE restored.value

-----------------------------------------------------------------------------
(* The reference, whatever the order of map entries: what tests/test_codec.py
   asserts of each kind.  Plain data arrives as it is, a date or a time as its
   ISO text, an undefined as None, and all of it the same within an Enum. *)
Content(v) == Range(v)
Given(v) == {<<leaf[1], IF leaf[2][1] = "enum" THEN leaf[2][2] ELSE leaf[2]>> : leaf \in Content(v)}
OfKinds(v, kinds) == {leaf \in Given(v) : leaf[2][1] \in kinds}

Arrives(v) ==
    OfKinds(v, {"int", "str", "bin", "none", "datetime", "dict"})
        \cup {<<leaf[1], <<"str", leaf[2][2]>>>> : leaf \in OfKinds(v, {"date", "time"})}
        \cup {<<leaf[1], None>> : leaf \in OfKinds(v, {"undefined"})}

(* A map of the application's own that looks like a placeholder, in a message
   that has real ones. *)
Ambiguous(v) == Extracted(v).count > 0 /\ \E i \in DOMAIN v : IsPlaceholder(v[i][2])
=============================================================================
