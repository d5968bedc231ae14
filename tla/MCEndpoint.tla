----------------------------- MODULE MCEndpoint -----------------------------
(* Instances of Endpoint for TLC. *)
EXTENDS Endpoint

Attr(name, is, mark, target) ==
    [name |-> name, hidden |-> name = "_x", is |-> is, static |-> name = "s", mark |-> mark, to |-> target]

(* A class instance with nested objects, one of them entered by two attributes
   and with a way back, one not marked; and a plain dict.  s is a static method. *)
MCObjects == [
    camera |-> [dict |-> FALSE, all |-> FALSE, attrs |-> <<
        Attr("m", "callable", "exposed", "none"), Attr("own", "callable", "none", "none"),
        Attr("s", "callable", "none", "none"),
        Attr("sub", "object", "nested", "part"), Attr("twin", "object", "nested", "part"),
        Attr("inner", "object", "none", "plain")>>],
    part |-> [dict |-> FALSE, all |-> TRUE, attrs |-> <<
        Attr("m", "callable", "none", "none"), Attr("_x", "callable", "exposed", "none"),
        Attr("v", "value", "exposed", "none"), Attr("back", "object", "nested", "camera")>>],
    plain |-> [dict |-> TRUE, all |-> FALSE, attrs |-> <<
        Attr("m", "callable", "none", "none"), Attr("v", "value", "none", "none"),
        Attr("sub", "object", "none", "part")>>]]

MCHandlers == [a |-> [root |-> "camera", decorators |-> TRUE], b |-> [root |-> "plain", decorators |-> TRUE],
               c |-> [root |-> "camera", decorators |-> FALSE]]

Shape(name, arg, handler, chunked) ==
    [path |-> <<"m">>, proxied |-> TRUE, name |-> name, arg |-> arg, handler |-> handler, chunked |-> chunked]
Callback == Shape("plain", "callable", "callback", FALSE)
Plain == Shape("plain", "none", "value", FALSE)

(* Every route, with handlers that fit it and handlers that do not. *)
MCShapes == {
    Plain, Shape("plain", "none", "unpackable", TRUE),
    Shape("plain", "none", "generator", FALSE),
    Shape("generate", "none", "generator", FALSE), Shape("generate", "none", "value", FALSE),
    Shape("pull", "none", "generator", FALSE), Shape("plain", "bundle", "generator", FALSE),
    Callback, Shape("plain", "callable", "synccallback", FALSE) }

Paths == {<<"own">>, <<"s">>, <<"v">>, <<"sub", "m">>, <<"sub", "v">>, <<"twin", "m">>, <<"inner", "m">>, <<"sub", "_x">>,
          <<"sub", "back", "m">>}

MCRequests == {1, 2}
MCNamespaces == {"a", "b", "c"}

(* A callback call beside a call of any shape, and a plain call beside one
   that runs as a task on one of the hosts; calls to two namespaces; and calls
   of other paths, by a proxy and without. *)
MCScenarios ==
    {[to |-> <<"a", "a">>, call |-> calls] :
        calls \in {<<Callback, other>> : other \in MCShapes} \cup
                  {<<Plain, other>> : other \in {s \in MCShapes : s.chunked \/ s.name = "generate"}}} \cup
    {[to |-> <<"a", "b">>, call |-> <<Callback, other>>] : other \in {Callback, Plain}} \cup
    {[to |-> <<n, n>>, call |-> [r \in MCRequests |-> [Plain EXCEPT !.path = p, !.proxied = r = 1]]] :
        n \in MCNamespaces, p \in Paths}
=============================================================================
