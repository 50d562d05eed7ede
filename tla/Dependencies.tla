----------------------------- MODULE Dependencies -----------------------------
(***************************************************************************)
(* src/router/dependency-resolver.ts: the activation order of a route.     *)
(* expandDependencies collects what the requested capabilities need,       *)
(* transitively, and what of it does not exist; sortByDependencies orders  *)
(* the closure with Kahn's algorithm, reports a cycle through every        *)
(* capability it could not place, and appends those in id order.           *)
(*                                                                         *)
(* The loops are steps.  `pending` is a stack in the code; which member is *)
(* taken first makes no difference to what is collected, and here it may   *)
(* be any.                                                                 *)
(***************************************************************************)
EXTENDS Catalog, Sequences

CONSTANT Questions   \* the catalogs and requests expandDependencies may be given

ASSUME DependencyAssumption ==
    Questions \subseteq [known : SUBSET Ids, requires : Relation, optional : Relation,
                         ids : SUBSET Ids]

VARIABLES
    phase,         \* "idle", "expand", "sort", "cycles", "rest", "done"
    known,         \* the capabilities of the universe
    requires,      \* requires[c]: the required dependencies c declares
    optional,      \* optional[c]: the optional ones
    requested,     \* the ids asked for that are known
    closure,       \* closureSet
    pending,       \* members of closureSet whose dependencies are unread
    missing,       \* missing[d]: who requires d, which is unknown
    optionalMiss,  \* <<d, c>>: c would like d, which is unknown
    waits,         \* waits[c]: what dependencyCount[c] counts
    ready,         \* placeable now
    order,         \* the activation order
    left,          \* capabilities the loop under way has not reached
    cycles         \* the member sets of the cycles reported

dependencyVars == <<phase, known, requires, optional, requested, closure, pending,
                    missing, optionalMiss, waits, ready, order, left, cycles>>

inputs == <<known, requires, optional, requested>>

DependencyInit ==
    /\ phase = "idle"
    /\ known = {} /\ requested = {} /\ closure = {} /\ pending = {}
    /\ requires = [c \in Ids |-> {}] /\ optional = [c \in Ids |-> {}]
    /\ missing = [d \in Ids |-> {}] /\ optionalMiss = {}
    /\ waits = [c \in Ids |-> {}] /\ ready = {} /\ order = <<>>
    /\ left = {} /\ cycles = {}

(* expandDependencies is called: unknown ids are dropped from the request.  *)
Ask ==
    /\ phase = "idle"
    /\ \E q \in Questions :
         /\ known' = q.known /\ requires' = q.requires /\ optional' = q.optional
         /\ requested' = q.ids \cap q.known
    /\ closure' = requested' /\ pending' = requested'
    /\ phase' = "expand"
    /\ UNCHANGED <<missing, optionalMiss, waits, ready, order, left, cycles>>

(* One round of the loop over `pending`.                                    *)
Expand ==
    /\ phase = "expand"
    /\ \E c \in pending :
         LET new == (requires[c] \cap known) \ closure IN
         /\ closure' = closure \cup new
         /\ pending' = (pending \ {c}) \cup new
         /\ missing' = [d \in Ids |-> IF d \in requires[c] \ known
                                      THEN missing[d] \cup {c} ELSE missing[d]]
         /\ optionalMiss' = optionalMiss \cup ((optional[c] \ known) \X {c})
    /\ UNCHANGED <<phase, waits, ready, order, left, cycles>> /\ UNCHANGED inputs

(* What c waits for: a dependency on itself does not count.                 *)
Needs(c) == (requires[c] \cap closure) \ {c}

SortStart ==
    /\ phase = "expand" /\ pending = {}
    /\ waits' = [c \in Ids |-> IF c \in closure THEN Needs(c) ELSE {}]
    /\ ready' = {c \in closure : Needs(c) = {}}
    /\ phase' = "sort"
    /\ UNCHANGED <<closure, pending, missing, optionalMiss, order, left, cycles>>
    /\ UNCHANGED inputs

(* A fault: whatever waited for it becomes ready, also for more.            *)
PlaceEagerly ==
    /\ phase = "sort" /\ ready # {}
    /\ LET c == Least(ready) IN
         /\ order' = Append(order, c)
         /\ waits' = [d \in Ids |-> waits[d] \ {c}]
         /\ ready' = (ready \ {c}) \cup {d \in closure : c \in waits[d]}
    /\ UNCHANGED <<phase, closure, pending, missing, optionalMiss, left, cycles>>
    /\ UNCHANGED inputs

(* The first of `ready`, which is kept sorted, is placed, and whatever      *)
(* waited for nothing else becomes ready.                                   *)
Place ==
    /\ phase = "sort" /\ ready # {}
    /\ LET c == Least(ready) IN
         /\ order' = Append(order, c)
         /\ waits' = [d \in Ids |-> waits[d] \ {c}]
         /\ ready' = (ready \ {c}) \cup {d \in closure : waits[d] = {c}}
    /\ UNCHANGED <<phase, closure, pending, missing, optionalMiss, left, cycles>>
    /\ UNCHANGED inputs

SortEnd ==
    /\ phase = "sort" /\ ready = {}
    /\ left' = closure \ Elems(order)
    /\ phase' = "cycles"
    /\ UNCHANGED <<closure, pending, missing, optionalMiss, waits, ready, order, cycles>>
    /\ UNCHANGED inputs

(* The simple cycles through c; simpleCycle returns one of them, if any.    *)
CyclesThrough(c) ==
    {p \in UNION {[1 .. n -> closure] : n \in 1 .. Cardinality(closure)} :
        /\ p[1] = c /\ \A i, j \in DOMAIN p : i # j => p[i] # p[j]
        /\ \A i \in DOMAIN p : p[(i % Len(p)) + 1] \in requires[p[i]]}

(* Members of a cycle that has been reported are not started from again.    *)
FindCycle ==
    /\ phase = "cycles" /\ left # {}
    /\ LET c == Least(left) IN
         /\ left' = left \ {c}
         /\ IF c \in UNION cycles \/ CyclesThrough(c) = {}
            THEN UNCHANGED cycles
            ELSE \E p \in CyclesThrough(c) : cycles' = cycles \cup {Elems(p)}
    /\ UNCHANGED <<phase, closure, pending, missing, optionalMiss, waits, ready, order>>
    /\ UNCHANGED inputs

CyclesEnd ==
    /\ phase = "cycles" /\ left = {}
    /\ left' = closure \ Elems(order)
    /\ phase' = "rest"
    /\ UNCHANGED <<closure, pending, missing, optionalMiss, waits, ready, order, cycles>>
    /\ UNCHANGED inputs

(* What is left over goes to the end, in id order.                          *)
AppendLeft ==
    /\ phase = "rest"
    /\ IF left = {} THEN phase' = "done" /\ UNCHANGED <<order, left>>
       ELSE /\ order' = Append(order, Least(left))
            /\ left' = left \ {Least(left)} /\ UNCHANGED phase
    /\ UNCHANGED <<closure, pending, missing, optionalMiss, waits, ready, cycles>>
    /\ UNCHANGED inputs

Resolve == Expand \/ SortStart \/ Place \/ SortEnd \/ FindCycle \/ CyclesEnd \/ AppendLeft

DependencyNext == Ask \/ Resolve

DependencySpec == DependencyInit /\ [][DependencyNext]_dependencyVars

-----------------------------------------------------------------------------
DependencyTypeOK ==
    /\ phase \in {"idle", "expand", "sort", "cycles", "rest", "done"}
    /\ known \in SUBSET Ids /\ requires \in Relation /\ optional \in Relation
    /\ requested \in SUBSET known
    /\ closure \in SUBSET known /\ pending \in SUBSET closure
    /\ missing \in Relation /\ optionalMiss \in SUBSET (Ids \X Ids)
    /\ waits \in Relation /\ ready \in SUBSET closure
    /\ order \in Seq(closure) /\ left \in SUBSET closure
    /\ cycles \in SUBSET SUBSET closure

(* What is collected, however the requirements are tangled: the least set    *)
(* of known capabilities that holds the requested ones and whatever known   *)
(* ones its members require; and the missing are just the unknown ids its   *)
(* members require, each with everyone who requires it (lines 71-91).       *)
ClosureExact ==
    phase \notin {"idle", "expand"} =>
      /\ requested \subseteq closure
      /\ \A c \in closure : requires[c] \cap known \subseteq closure
      /\ \A S \in SUBSET known :
           (requested \subseteq S /\ \A c \in S : requires[c] \cap known \subseteq S)
             => closure \subseteq S
      /\ \A d \in Ids : missing[d] = {c \in closure : d \in requires[c] \ known}

(* c can reach, through requirements, a cycle of at least two capabilities.  *)
ProperNeeds == [c \in Ids |-> IF c \in closure THEN Needs(c) ELSE {}]
Tangled(c) == \E d \in Reach(ProperNeeds, {c}) : OnCycle(ProperNeeds, d)

(* The activation order holds everything collected once, and nothing comes  *)
(* before something it requires unless it depends on a cycle; and whoever   *)
(* lies on a cycle of two or more is in a reported cycle, although the      *)
(* search leaves out whom it has already reported, and nobody else is       *)
(* (lines 125-171).                                                         *)
OrderSafe ==
    phase = "done" =>
      /\ Elems(order) = closure /\ Len(order) = Cardinality(closure)
      /\ \A j \in DOMAIN order : Tangled(order[j]) \/
            \A d \in Needs(order[j]) : \E i \in 1 .. j - 1 : order[i] = d
      /\ \A c \in closure : OnCycle(ProperNeeds, c) => c \in UNION cycles
      /\ \A c \in UNION cycles : OnCycle(requires, c)

(* What expansion collects and what sorting makes of it, together: whatever  *)
(* is asked for is expanded exactly and then activated in a safe order.     *)
ResolutionAgrees == ClosureExact /\ OrderSafe
=============================================================================
