----------------------------- MODULE QueryLimits -----------------------------
(***************************************************************************)
(* The two walks over an operation's selections in src/server/depth.go:    *)
(* selectionDepth behind Config.MaxDepth, introspects behind               *)
(* Config.DisableIntrospection, each with the stack of its recursion.      *)
(*                                                                         *)
(* A document is a graph: doc[n] is the selection set n, the operation's,  *)
(* a fragment's or one nested in them.  The selections of a set are taken  *)
(* in any order.  Documents with cycles of fragments are among them: the   *)
(* validator refuses those first, and both walks guard against them anyway.*)
(***************************************************************************)
EXTENDS Integers, SequencesExt, FiniteSetsExt

CONSTANTS Walks,      \* the walks to take
          Fragments,  \* the fragments the document defines
          Nested,     \* the selection sets below fields and inline fragments, numbered in
                      \* the order in which they are written
          Widths,     \* bound: how many selections a set may have
          Limit       \* Config.MaxDepth

CONSTANTS Op, Leaf, Undefined  \* the operation's set, no set, no definition

ASSUME QueryLimitsConstants ==
    /\ Walks \subseteq {"depth", "introspects"} /\ Limit \in Nat /\ Widths \subseteq Nat
    /\ IsFiniteSet(Fragments) /\ IsFiniteSet(Nested) /\ Nested \subseteq Nat
    /\ Fragments \cap Nested = {} /\ Op \notin Fragments \cup Nested
    /\ {Leaf, Undefined} \cap ({Op} \cup Fragments \cup Nested) = {} /\ Leaf # Undefined

Sets == {Op} \cup Fragments \cup Nested

(* A scalar field, an introspection field, a field or an inline fragment   *)
(* around a nested set, which is written after the set that holds it, a    *)
(* spread.                                                                 *)
Plain == [kind : {"field"}, to : {Leaf}]
Meta  == [kind : {"__schema"}, to : {Leaf}]
Below(n)  == [kind : {"field", "inline"}, to : {m \in Nested : n \in Nested => m > n}]
Spread(n) == [kind : {"spread"}, to : Fragments \cup (IF n = Op THEN {Undefined} ELSE {})]
Selections(w, n) == (IF w = "depth" THEN Plain ELSE Meta) \cup Below(n) \cup Spread(n)

Wide(w, n)   == UNION {kSubset(k, Selections(w, n)) : k \in Widths}
Documents(w) == {d \in [Sets -> UNION {Wide(w, n) : n \in Sets}] :
                    \A n \in Sets : d[n] \subseteq Selections(w, n)}
Walking   == -1

VARIABLES
    walk,      \* "depth" or "introspects"
    doc,
    stack,     \* the calls in progress, the outermost first
    visiting,  \* the map both walks hand on: the spreads on the stack, or seen
    result,    \* Walking, or what the outermost call returned: a depth, or 1 for true
    walked     \* history: how often each fragment's set was entered

walkVars == <<walk, doc, stack, visiting, result, walked>>

(* A call: its set, the selections it has left, the depth it has found,    *)
(* and the selection of the caller that it is for.                         *)
Call(n, sel) == [set |-> n, left |-> doc[n], depth |-> 0, for |-> sel]

Top     == Last(stack)
Rest    == Front(stack)
Root    == [kind |-> "root", to |-> Op]

(* The top call with a selection done.  The variant does not move on.      *)
Retaken(sel) == Top
Taken(sel)   == [Top EXCEPT !.left = @ \ {sel}]

Deeper(call, d) == [call EXCEPT !.depth = IF d > @ THEN d ELSE @]

WalkInit == /\ walk \in Walks
            /\ doc \in Documents(walk)
            /\ stack = <<[set |-> Op, left |-> doc[Op], depth |-> 0, for |-> Root]>>
            /\ visiting = {} /\ result = Walking
            /\ walked = [f \in Fragments |-> 0]

-----------------------------------------------------------------------------
(* What a selection adds to the depth below it: an inline fragment nothing. *)
Level(sel) == IF sel.kind \in {"field", "__schema"} THEN 1 ELSE 0

(* A field without selections, whose nested call returns at once.          *)
Scalar(sel) == /\ sel.to = Leaf
               /\ ~(walk = "introspects" /\ sel.kind = "__schema")
               /\ stack' = Append(Rest, Deeper(Taken(sel), Level(sel)))
               /\ UNCHANGED <<doc, visiting, result, walked>>

(* introspects returns true through every caller at the first match.       *)
Found(sel) == /\ walk = "introspects" /\ sel.kind = "__schema"
              /\ stack' = <<>> /\ result' = 1
              /\ UNCHANGED <<doc, visiting, walked>>

Enter(sel) == /\ sel.kind \in {"field", "inline"} /\ sel.to # Leaf
              /\ stack' = Append(Append(Rest, Taken(sel)), Call(sel.to, sel))
              /\ UNCHANGED <<doc, visiting, result, walked>>

(* A spread that is in the map, or not defined, is passed over; any other  *)
(* is put in the map and its fragment walked.  The variant passes over     *)
(* every spread.                                                           *)
Every(sel)   == TRUE
Skipped(sel) == sel.to \in visiting

SkipSpread(sel) == /\ sel.kind = "spread" /\ (Skipped(sel) \/ sel.to = Undefined)
                   /\ stack' = Append(Rest, Taken(sel))
                   /\ visiting' = IF walk = "introspects" THEN visiting \cup {sel.to} ELSE visiting
                   /\ UNCHANGED <<doc, result, walked>>
EnterSpread(sel) == /\ sel.kind = "spread" /\ ~Skipped(sel) /\ sel.to # Undefined
                    /\ stack' = Append(Append(Rest, Taken(sel)), Call(sel.to, sel))
                    /\ visiting' = visiting \cup {sel.to}
                    /\ walked' = [walked EXCEPT ![sel.to] = @ + 1]
                    /\ UNCHANGED <<doc, result>>

(* selectionDepth takes a spread out of the map again when its fragment    *)
(* has been walked; introspects leaves it there.  The variants do the      *)
(* opposite.                                                               *)
Swapped(sel) == IF walk = "introspects" /\ sel.kind = "spread" THEN visiting \ {sel.to} ELSE visiting
Cleared(sel) == IF walk = "depth" /\ sel.kind = "spread" THEN visiting \ {sel.to} ELSE visiting

(* A call that has looked at all its selections returns to its caller.     *)
Return == /\ stack # <<>> /\ Top.left = {}
          /\ IF Len(stack) = 1
             THEN /\ result' = IF walk = "depth" THEN Top.depth ELSE 0
                  /\ stack' = <<>> /\ UNCHANGED visiting
             ELSE /\ stack' = Append(Front(Rest), Deeper(Last(Rest), Level(Top.for) + Top.depth))
                  /\ visiting' = Cleared(Top.for)
                  /\ UNCHANGED result
          /\ UNCHANGED <<doc, walked>>

WalkStep(sel) == Scalar(sel) \/ Found(sel) \/ Enter(sel) \/ SkipSpread(sel) \/ EnterSpread(sel)
WalkNext == /\ Return \/ (stack # <<>> /\ \E sel \in Top.left : WalkStep(sel))
            /\ UNCHANGED walk

WalkSpec == WalkInit /\ [][WalkNext]_walkVars /\ WF_walkVars(WalkNext)

(* The operation is rejected.                                              *)
Rejected == IF walk = "depth" THEN result > Limit ELSE result = 1

-----------------------------------------------------------------------------
(* The document's own depth: fields on the longest way down, with the      *)
(* spreads replaced by what they stand for.  Only for documents that can   *)
(* be written out so.                                                      *)
Steps(d, n)     == {sel \in d[n] : sel.to \in Sets}
Closed(d, C)    == \A n \in C : \A sel \in Steps(d, n) : sel.to \in C
Reachable(d, n) == {m \in Sets : \A C \in SUBSET Sets : n \in C /\ Closed(d, C) => m \in C}
Acyclic(d)      == \A n \in Reachable(d, Op) : \A sel \in Steps(d, n) : n \notin Reachable(d, sel.to)

Adds(h, sel)   == (IF sel.kind = "field" THEN 1 ELSE 0) + (IF sel.to \in Sets THEN h[sel.to] ELSE 0)
Measures(d, h) == \A n \in DOMAIN h : h[n] = Max({0} \cup {Adds(h, sel) : sel \in d[n]})
Heights(d)     == CHOOSE h \in [Reachable(d, Op) -> 0 .. Cardinality(Sets)] : Measures(d, h)
Height(d)      == Heights(d)[Op]

(* An operation is rejected exactly if, written out without fragments, it  *)
(* nests deeper than the limit: no arrangement of inline fragments and     *)
(* spreads, shared ones included, makes it measure otherwise.  And the     *)
(* walk is never inside one fragment twice, on a cycle neither.            *)
DepthExact == walk = "depth" =>
    /\ (result # Walking /\ Acyclic(doc)) => /\ result = Height(doc)
                                             /\ Rejected <=> Height(doc) > Limit
    /\ \A i, j \in DOMAIN stack :
          stack[i].for.kind = "spread" /\ stack[i].for = stack[j].for => i = j

(* Introspection is found wherever it can be reached, and nowhere else,    *)
(* although "a fragment is walked once": the memo keeps the walk linear    *)
(* where fragments spread one another more than once.                      *)
IntrospectionFound == walk = "introspects" =>
    /\ result # Walking =>
          (Rejected <=> \E n \in Reachable(doc, Op) : \E sel \in doc[n] : sel.kind = "__schema")
    /\ \A f \in Fragments : walked[f] <= 1

(* The walk ends, on a cycle too.                                          *)
Ends == <>(result # Walking)
=============================================================================
