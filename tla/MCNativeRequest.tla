--------------------------- MODULE MCNativeRequest ---------------------------
(* Instances of NativeRequest for TLC. *)
EXTENDS NativeRequest

Small == Bin(<<1>>)
Big == Bin(<<1, 2>>)
Bigger == Bin(<<3, 4, 5>>)
Number == <<"int", 1>>

(* A value for each case of the codec, and answers that look like errors. *)
MCResults == {
    <<>>,
    << <<"a", Small>>, <<"b", Number>> >>,
    << <<"a", Big>>, <<"b", Small>>, <<"c", Bigger>>, <<"d", Big>> >>,
    << <<"a", <<"date", "2026-06-15">> >>, <<"b", <<"time", "12:00">> >>, <<"c", <<"undefined", 0>> >>,
       <<"d", <<"enum", Big>> >>, <<"e", <<"enum", <<"date", "2026-06-15">> >> >>, <<"f", <<"datetime", 1>> >> >>,
    << <<"a", Big>>, <<"b", <<"object", 0>> >> >>,
    << <<"a", Placeholder(0, 2)>> >>,
    << <<"a", Placeholder(0, 2)>>, <<"b", Big>> >>,
    << <<"a", Big>>, <<"b", Placeholder(2, 2)>>, <<"c", Bigger>> >>,
    << <<"a", <<"dict", <<0, 2, 3>> >> >>, <<"b", Big>> >>,
    << <<"error", <<"str", "mine">> >> >>,
    << <<"code", <<"str", "200">> >>, <<"data", Bigger>> >> }

(* Every message of up to three leaves of these kinds. *)
Leaves == {Number, Big, Bigger, <<"enum", Big>>, Placeholder(0, 2), Placeholder(1, 3), <<"dict", <<0, 2, 3>> >>}
Places == <<"a", "b", "c">>
MCData == {<<<<"a", <<"object", 0>>>>>>} \cup
    UNION {{[i \in 1..n |-> <<Places[i], leaves[i]>>] : leaves \in [1..n -> Leaves]} : n \in 0..3}
=============================================================================
