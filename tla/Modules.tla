------------------------------ MODULE Modules ------------------------------
(***************************************************************************)
(* Kernel modules (modules/module.c): the list that module_register fills, *)
(* module_load_all, and module_unload.  The kernel registers one example   *)
(* without dependencies and loads once; the other lists, a second load and *)
(* unloading are the interface that the file offers to the modules to      *)
(* come.  A name is its first letter and the rest; init is "none" for a    *)
(* null pointer, "succeeds" or "may fail"; exit says whether the pointer   *)
(* to it is set.                                                           *)
(***************************************************************************)
EXTENDS Integers, Sequences, SeqFold

CONSTANTS
  ModuleLists,    \* the modules linked into the kernel, in their order
  MaxModules,     \* length of mods[] (32)
  MaxModuleCalls  \* bound: loads and unloads after the boot

VARIABLES
  linked,       \* the list of this kernel
  mods,         \* what is registered
  loaded,       \* indices of mods whose loaded flag is set
  events,       \* history: what happened to which module, in order
  module_calls

moduleVars == <<linked, mods, loaded, events, module_calls>>

(* MODULE_DEFINE and module_example_init *)
Module(first, rest, depends, init, exit) ==
  [first |-> first, rest |-> rest, depends |-> depends, init |-> init, exit |-> exit,
   refcount |-> 0]
Example == Module("e", "xample", <<>>, "succeeds", TRUE)

ModulesBss ==
  /\ linked \in ModuleLists /\ mods = <<>> /\ loaded = {}
  /\ events = <<>> /\ module_calls = 0

module_register(list, m) == IF Len(list) >= MaxModules THEN list ELSE Append(list, m)
RegisterAll ==
  /\ mods' = FoldLeft(module_register, mods, linked)
  /\ UNCHANGED <<linked, loaded, events, module_calls>>

(* Only the first letters are compared. *)
dep_loaded(in, first) == \E i \in in : mods[i].first = first

(* Mutant: the flag is not looked at. *)
StartsAlways(in, i) == mods[i].init # "none"
Starts(in, i) == i \notin in /\ mods[i].init # "none"

Event(what, i) == [what |-> what, module |-> i]
When(condition, event) == IF condition THEN <<event>> ELSE <<>>

(* One turn of the loop; failing are the initializers that report failure. *)
LoadOne(st, i, failing) ==
  IF ~st.ok \/ \E d \in Range(mods[i].depends) : ~dep_loaded(st.loaded, d)
  THEN [st EXCEPT !.ok = FALSE]
  ELSE IF Starts(st.loaded, i) /\ i \in failing THEN [st EXCEPT !.ok = FALSE]
  ELSE [ok |-> TRUE, loaded |-> st.loaded \cup {i},
        events |-> st.events \o When(Starts(st.loaded, i), Event("init", i))
                             \o When(i \notin st.loaded, Event("load", i))]
module_load_all ==
  \E failing \in SUBSET {i \in DOMAIN mods : mods[i].init = "may fail"} :
    LET end == FoldLeft(LAMBDA st, i : LoadOne(st, i, failing),
                        [ok |-> TRUE, loaded |-> loaded, events |-> events],
                        [i \in DOMAIN mods |-> i])
    IN  /\ loaded' = end.loaded /\ events' = end.events
        /\ UNCHANGED <<linked, mods>>

(* The first module of the name, unless it is in use; exit is called if    *)
(* there is one, whether or not the module is loaded.                      *)
module_unload(m) ==
  \E i \in DOMAIN mods :
    /\ mods[i].first = m.first /\ mods[i].rest = m.rest
    /\ \A j \in 1 .. i - 1 : mods[j].first # m.first \/ mods[j].rest # m.rest
    /\ mods[i].refcount = 0
    /\ loaded' = loaded \ {i}
    /\ events' = events \o When(mods[i].exit, Event("exit", i)) \o <<Event("unload", i)>>
    /\ UNCHANGED <<linked, mods>>

ModuleCall ==
  /\ module_calls < MaxModuleCalls /\ module_calls' = module_calls + 1
  /\ module_load_all \/ \E m \in Range(mods) : module_unload(m)

-----------------------------------------------------------------------------
(* However often loading is tried again after a failure or an unload: an   *)
(* initializer that succeeded does not run a second time before the exit   *)
(* of its module, or before its unload if the module has no exit; and when *)
(* a module gets loaded, another one that satisfies each of its            *)
(* dependencies was loaded before it and not unloaded since                *)
(* (module_load_all, module_unload).                                       *)
ModulesStartOnce ==
  \A k \in DOMAIN events :
    LET i == events[k].module
        Since(j, e) == \E u \in j + 1 .. k - 1 : events[u] = e
    IN  /\ events[k].what = "init" =>
             \A j \in 1 .. k - 1 : events[j] = events[k] =>
               Since(j, Event(IF mods[i].exit THEN "exit" ELSE "unload", i))
        /\ events[k].what = "load" =>
             \A d \in Range(mods[i].depends) :
               \E j \in 1 .. k - 1 :
                 /\ events[j].what = "load" /\ mods[events[j].module].first = d
                 /\ ~Since(j, Event("unload", events[j].module))
=============================================================================
