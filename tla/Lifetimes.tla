----------------------------- MODULE Lifetimes -----------------------------
(***************************************************************************)
(* The global objects of a GRACE process, from their construction on first *)
(* use to their destruction at exit.                                       *)
(*                                                                         *)
(* A singleton (utils::singleton_holder) has a longevity.  When it is      *)
(* constructed, set_longevity puts a tracker for it into an array sorted   *)
(* by longevity and registers at_exit_func once more; each call of         *)
(* at_exit_func destroys the singleton of the last tracker.  The other     *)
(* globals are static variables of functions, which the language destroys: *)
(* it registers their destructors with the same list, in which exit() goes *)
(* backwards.                                                              *)
(***************************************************************************)
EXTENDS Integers, Sequences, FiniteSets

CONSTANTS
  Singleton,   \* objects held by a singleton_holder
  Static,      \* objects that are static variables of functions
  Longevity,   \* [Singleton -> Nat]: T::longevity
  DtorUses,    \* the objects each object's destructor uses
  Starts,      \* the orders in which a program may come to construct its objects
  saver        \* the singleton whose destructor does its work only on request

Object == Singleton \cup Static
AT_EXIT == "at_exit_func"

ASSUME ObjectAssumption == /\ Singleton \cap Static = {}
                           /\ AT_EXIT \notin Object
                           /\ Longevity \in [Singleton -> Nat]
                           /\ DtorUses \in [Object -> SUBSET Object]
ASSUME StartsAssumption == \A s \in Starts :
         s \in Seq(Object) /\ \A i, j \in DOMAIN s : s[i] = s[j] => i = j
(* The list of longevities (unique_objects_lifetimes) is hand-maintained so that
   a singleton's dependencies come before it. *)
ASSUME LongevityAssumption ==
         \A x \in Singleton : \A u \in DtorUses[x] \cap Singleton : Longevity[u] < Longevity[x]

(* Of a program that constructs the objects s: how many singletons it has made
   before its i-th, and those that exit() destroys no earlier than u. *)
MadeBefore(s, i) == {j \in 1 .. i - 1 : s[j] \in Singleton}
Lasting(s, u) == {y \in Singleton : Longevity[y] <= Longevity[u] /\ \E i \in DOMAIN s : s[i] = y}
(* No list keeps the statics after what they use; their first use comes late
   enough: after as many singletons as outlast the one they use. *)
ASSUME LateAssumption ==
         \A s \in Starts : \A i \in DOMAIN s :
           s[i] \in Static =>
             \A u \in DtorUses[s[i]] \cap Singleton :
               Cardinality(Lasting(s, u)) <= Cardinality(MadeBefore(s, i))

VARIABLES
  todo,      \* the objects the program has still to construct
  saving,    \* checkpoint_at_termination
  trackers,  \* ptracker_array
  handlers,  \* what exit() will call, the last first
  phase,     \* "main", "exit" or "over"
  gone,      \* the objects destroyed
  missing    \* <<x, u>> : x's destructor used u when u was gone

lifeVars == <<todo, saving, trackers, handlers, phase, gone, missing>>

LifeInit == /\ todo \in Starts
            /\ saving \in BOOLEAN
            /\ trackers = <<>>
            /\ handlers = <<>>
            /\ phase = "main"
            /\ gone = {}
            /\ missing = {}

ButLast(s) == SubSeq(s, 1, Len(s) - 1)
InsertedAt(s, k, x) == [i \in 1 .. Len(s) + 1 |->
                          IF i < k THEN s[i] ELSE IF i = k THEN x ELSE s[i - 1]]

(* Mutant: the comparison the other way round. *)
UpperBoundDescending(k, l) ==
  /\ \A i \in 1 .. k - 1 : Longevity[trackers[i]] >= l
  /\ k <= Len(trackers) => Longevity[trackers[k]] < l
(* std::upper_bound: the first place after the trackers of longevity <= l. *)
UpperBound(k, l) == /\ \A i \in 1 .. k - 1 : Longevity[trackers[i]] <= l
                    /\ k <= Len(trackers) => Longevity[trackers[k]] > l

Registered == Append(handlers, AT_EXIT)

(* The constructor of a singleton has run: set_longevity. *)
Construct == /\ phase = "main" /\ todo # <<>> /\ Head(todo) \in Singleton
             /\ \E k \in 1 .. Len(trackers) + 1 :
                  /\ UpperBound(k, Longevity[Head(todo)])
                  /\ trackers' = InsertedAt(trackers, k, Head(todo))
             /\ handlers' = Registered
             /\ todo' = Tail(todo)
             /\ UNCHANGED <<saving, phase, gone, missing>>
(* A function is entered for the first time and its static constructed. *)
ConstructStatic == /\ phase = "main" /\ todo # <<>> /\ Head(todo) \in Static
                   /\ handlers' = Append(handlers, Head(todo))
                   /\ todo' = Tail(todo)
                   /\ UNCHANGED <<saving, trackers, phase, gone, missing>>
(* main returns; an error aborts the process instead, and destroys nothing. *)
Exit == /\ phase = "main" /\ todo = <<>>
        /\ phase' = "exit"
        /\ UNCHANGED <<todo, saving, trackers, handlers, gone, missing>>

Uses(x) == IF x = saver /\ ~saving THEN {} ELSE DtorUses[x]
Destroyed(X) == /\ gone' = gone \cup X
                /\ missing' = missing \cup {p \in X \X Object : p[2] \in Uses(p[1]) \cap gone}

Calls(h) == phase = "exit" /\ handlers # <<>> /\ handlers[Len(handlers)] = h
(* Mutant: every tracker at once. *)
AtExitAll == /\ Calls(AT_EXIT)
             /\ Destroyed({trackers[i] : i \in DOMAIN trackers})
             /\ trackers' = <<>>
             /\ handlers' = ButLast(handlers)
             /\ UNCHANGED <<todo, saving, phase>>
(* at_exit_func *)
AtExit == /\ Calls(AT_EXIT)
          /\ Len(trackers) > 0   \* ASSERT(elements > 0 ...)
          /\ Destroyed({trackers[Len(trackers)]})
          /\ trackers' = ButLast(trackers)
          /\ handlers' = ButLast(handlers)
          /\ UNCHANGED <<todo, saving, phase>>
DestroyStatic == \E x \in Static :
                   /\ Calls(x)
                   /\ Destroyed({x})
                   /\ handlers' = ButLast(handlers)
                   /\ UNCHANGED <<todo, saving, trackers, phase>>
ProcessEnds == /\ phase = "exit" /\ handlers = <<>>
               /\ phase' = "over"
               /\ UNCHANGED <<todo, saving, trackers, handlers, gone, missing>>

LifeNext == Construct \/ ConstructStatic \/ Exit \/ AtExit \/ DestroyStatic \/ ProcessEnds
LifeSpec == LifeInit /\ [][LifeNext]_lifeVars

(***************************************************************************)
(* Properties                                                              *)
(***************************************************************************)
LifeTypeOK == /\ todo \in Seq(Object)
              /\ saving \in BOOLEAN
              /\ trackers \in Seq(Singleton)
              /\ handlers \in Seq(Object \cup {AT_EXIT})
              /\ phase \in {"main", "exit", "over"}
              /\ gone \subseteq Object
              /\ missing \subseteq Object \X Object

(* The array is sorted, and what has been destroyed had no smaller         *)
(* longevity than anything still in it (set_longevity, at_exit_func).      *)
Sorted == \A i, j \in 1 .. Len(trackers) :
            i <= j => Longevity[trackers[i]] <= Longevity[trackers[j]]
GoneOnTop == \A x \in gone \cap Singleton : \A i \in 1 .. Len(trackers) :
               Longevity[trackers[i]] <= Longevity[x]
NothingGoneInMain == phase = "main" => gone = {}

(* In whatever order the singletons came to life, the destructor of none   *)
(* uses one that is destroyed already (singleton_holder.rst: "so that no   *)
(* singleton ever finds its dependencies already destroyed").              *)
SingletonsFindSingletons == missing \cap (Singleton \X Singleton) = {}

IInv == LifeTypeOK /\ Sorted /\ GoneOnTop /\ NothingGoneInMain /\ SingletonsFindSingletons

(* Nor does the destructor of a static, which comes at whatever place of   *)
(* exit's list its first use has put it: Kokkos is finalized after the     *)
(* last of them has freed its arrays.                                      *)
StaticsFindSingletons == missing \cap (Static \X Singleton) = {}
=============================================================================
