------------------------------ MODULE Exposure ------------------------------
(***************************************************************************)
(* Which methods register_handler() serves: the walk over the handlers     *)
(* object, with decorators and without.                                    *)
(*                                                                         *)
(* An object is a plain dict or an instance of a class, which may expose   *)
(* everything; its attributes have a name (hidden if it starts with an     *)
(* underscore), are callables, objects or values, and carry the mark of a  *)
(* decorator: exposed (@RPCMethod, @RPCProperty), nested (@RPCNested) or   *)
(* none.  A static callable is a static or class method of its class.      *)
(***************************************************************************)
EXTENDS Naturals, FiniteSets, Sequences, SequencesExt

CONSTANT Objects    \* object -> dict, all, and attrs: a sequence

(* What becomes a handler; a value is served by a getter. *)
Exposes(o, a) ==
    /\ ~a.hidden
    /\ IF Objects[o].dict THEN a.is # "object"
       ELSE a.mark = "exposed" \/ (a.is = "callable" /\ Objects[o].all)

(* Mutant of Descends: every object is entered. *)
DescendsUnmarked(o, a) == ~a.hidden /\ a.is = "object"

(* What is walked into. *)
Descends(o, a) == ~a.hidden /\ a.is = "object" /\ (Objects[o].dict \/ a.mark = "nested")

(* There are finitely many objects, each with a list of attributes. *)
ASSUME ExposureAssumption ==
    /\ IsFiniteSet(DOMAIN Objects)
    /\ \A o \in DOMAIN Objects :
        /\ Objects[o].attrs \in Seq(Range(Objects[o].attrs))
        /\ \A a \in Range(Objects[o].attrs) : a.is = "object" => a.to \in DOMAIN Objects

(* The walk so far: the path by which an object was entered, the attribute of it
   that is next (0 for an object that is not in visited), the objects of the calls
   under way, and the handlers. *)
Walk(path, next, calls, handlers) == [path |-> path, next |-> next, calls |-> calls, handlers |-> handlers]

Begin(root) ==
    Walk([o \in DOMAIN Objects |-> <<>>], [o \in DOMAIN Objects |-> IF o = root THEN 1 ELSE 0], <<root>>, {})

(* The innermost call looks at an attribute or returns: what is exposed becomes a
   handler, what is nested and was not visited is walked into. *)
Visit(w) ==
    LET o == Last(w.calls)
        i == w.next[o]
        a == Objects[o].attrs[i]
        path == Append(w.path[o], a.name)
        next == [w.next EXCEPT ![o] = i + 1]
        returns == i > Len(Objects[o].attrs)
        exposes == ~returns /\ Exposes(o, a)
        enters == ~(returns \/ exposes) /\ Descends(o, a) /\ w.next[a.to] = 0
    IN CASE returns -> Walk(w.path, next, Front(w.calls), w.handlers)
         [] exposes -> Walk(w.path, next, w.calls, w.handlers \cup {path})
         [] enters -> Walk([w.path EXCEPT ![a.to] = path], [next EXCEPT ![a.to] = 1],
                           Append(w.calls, a.to), w.handlers)
         [] OTHER -> Walk(w.path, next, w.calls, w.handlers)

(* Every attribute is looked at once, and every call returns once. *)
Places == UNION {{o} \X (1..Len(Objects[o].attrs) + 1) : o \in DOMAIN Objects}

(* extract_nested_methods_with_decorators(): depth first, until nothing is left. *)
WithDecorators(root) ==
    LET walk[n \in 0..Cardinality(Places)] ==
            IF n = 0 THEN Begin(root)
            ELSE LET before == walk[n - 1] IN IF before.calls = <<>> THEN before ELSE Visit(before)
    IN walk[Cardinality(Places)].handlers

(* extract_nested_methods_without_decorators(): the object's own callables, of an
   instance those that are bound to it. *)
WithoutDecorators(root) ==
    LET own == {a \in Range(Objects[root].attrs) : ~a.hidden /\ a.is = "callable"}
    IN {<<a.name>> : a \in {a \in own : Objects[root].dict \/ ~a.static}}

-----------------------------------------------------------------------------
(* The reference: path leads to an attribute of object o, along visible attributes
   that are each of a plain dict or marked as nested, and it is exposed. *)
Leads(root, path, o) ==
    path # <<>> /\ \E way \in [1..Len(path) -> DOMAIN Objects] :
        /\ way[1] = root /\ way[Len(path)] = o
        /\ \A i \in 1..Len(path) - 1 : \E a \in Range(Objects[way[i]].attrs) :
            /\ a.name = path[i] /\ ~a.hidden /\ a.is = "object" /\ a.to = way[i + 1]
            /\ Objects[way[i]].dict \/ a.mark = "nested"
        /\ \E a \in Range(Objects[o].attrs) : a.name = path[Len(path)] /\ Exposes(o, a)
=============================================================================
