---------------------------- MODULE FuseHandles ----------------------------
(***************************************************************************)
(* The life of struct fuse handles in one process (lib/fuse.c): the        *)
(* thread-specific key of fuse_get_context(), shared by all handles and     *)
(* counted by fuse_context_ref; the registry of path modules (the builtin   *)
(* ones and those of shared objects), whose ctr counts the handles that use *)
(* them; and the error paths of fuse_new().                                 *)
(*                                                                          *)
(* Several threads may be inside fuse_new() at once: every section under    *)
(* fuse_context_lock is one step.  fuse_destroy() reads the registry        *)
(* without the lock, so the application is taken to call it while no other  *)
(* thread is in fuse_new() or fuse_destroy().                               *)
(***************************************************************************)
EXTENDS Naturals, Sequences, FiniteSets, SequencesExt

CONSTANTS Handles,      \* struct fuse objects the application creates
          Builtin,      \* names of the builtin modules
          Shared,       \* names of modules that live in a shared object
          MaxNews,      \* how often the application calls fuse_new()
          HandleFaults  \* how many allocations, factories, ... may fail

ASSUME HandlesAssumption ==
    /\ IsFiniteSet(Handles)
    /\ Builtin \cap Shared = {}
    /\ MaxNews \in Nat /\ HandleFaults \in Nat

VARIABLES registry,     \* fuse_modules: the registered modules, latest first
          builtins,     \* builtin_modules_registered
          ref,          \* fuse_context_ref
          key,          \* fuse_context_key exists
          handle,       \* per handle: where its thread is, and its layers
          loads,        \* how often dlopen() succeeded
          news,         \* calls of fuse_new() so far
          emptied,      \* handles whose modules were put by a fuse_destroy()
          handleFaults  \* failures so far

handleVars ==
    <<registry, builtins, ref, key, handle, loads, news, emptied, handleFaults>>

ModuleNames == Builtin \cup Shared
None == [at |-> "none", todo |-> <<>>, layers |-> <<>>, module |-> <<>>]

HandlesInit ==
    /\ registry = <<>> /\ builtins = FALSE
    /\ ref = 0 /\ key = FALSE
    /\ handle = [h \in Handles |-> None]
    /\ loads = 0 /\ news = 0 /\ emptied = {} /\ handleFaults = 0

HandleFails ==
    handleFaults < HandleFaults /\ handleFaults' = handleFaults + 1

(* A registered module is told apart by its name and, for a shared object,  *)
(* by the dlopen() that mapped it (0: part of the library).                 *)
Position(reg, name) == SelectInSeq(reg, LAMBDA m : m.name = name)
Registered(name, load) == [name |-> name, load |-> load, ctr |-> 0]
Layer(m) == [name |-> m.name, load |-> m.load]

(* fuse_new(): options are parsed, then the builtin modules are registered  *)
(* by the first handle of the process.                                      *)
fuse_new(h, modules) ==
    /\ handle[h].at = "none" /\ news < MaxNews
    /\ \A g \in Handles : handle[g].at # "closing"
    /\ news' = news + 1
    /\ handle' = [handle EXCEPT ![h] = [None EXCEPT !.at = "key", !.todo = modules]]
    /\ builtins' = TRUE
    /\ registry' = IF builtins THEN registry
                   ELSE SetToSeq({Registered(n, 0) : n \in Builtin}) \o registry
    /\ UNCHANGED <<ref, key, loads, emptied, handleFaults>>

(* The first handle creates the key; a key that cannot be created leaves    *)
(* nothing behind.                                                          *)
fuse_create_context_key(h) ==
    /\ handle[h].at = "key"
    /\ \/ /\ ref' = ref + 1 /\ key' = TRUE
          /\ handle' = [handle EXCEPT ![h].at = "fs"]
          /\ UNCHANGED handleFaults
       \/ /\ ref = 0 /\ HandleFails
          /\ handle' = [handle EXCEPT ![h] = None]
          /\ UNCHANGED <<ref, key>>
    /\ UNCHANGED <<registry, builtins, loads, news, emptied>>

fuse_fs_new(h) ==
    /\ handle[h].at = "fs"
    /\ \/ handle' = [handle EXCEPT ![h].at = "modules"] /\ UNCHANGED handleFaults
       \/ HandleFails /\ handle' = [handle EXCEPT ![h].at = "unwind"]
    /\ UNCHANGED <<registry, builtins, ref, key, loads, news, emptied>>

(* fuse_find_module(): a module that is found is counted. *)
fuse_find_module_loaded(reg, name) ==
    LET i == Position(reg, name)
    IN  IF i = 0 THEN reg ELSE [reg EXCEPT ![i].ctr = IF @ = 0 THEN 1 ELSE @]
fuse_find_module(reg, name) ==
    LET i == Position(reg, name)
    IN  IF i = 0 THEN reg ELSE [reg EXCEPT ![i].ctr = @ + 1]

(* fuse_load_so_module(): opens the shared object and registers its module; *)
(* whatever fails after dlopen() closes it again.                           *)
fuse_load_so_module(reg, name) == <<Registered(name, loads + 1)>> \o reg

(* fuse_get_module(), under fuse_context_lock, for the next module of the   *)
(* option "modules=".                                                       *)
fuse_get_module(h) ==
    LET name == Head(handle[h].todo)
        found(reg) == /\ registry' = fuse_find_module(reg, name)
                      /\ handle' = [handle EXCEPT ![h].at = "factory",
                            ![h].module = <<Layer(reg[Position(reg, name)])>>]
    IN  /\ handle[h].at = "modules" /\ handle[h].todo # <<>>
        /\ \/ /\ Position(registry, name) # 0
              /\ found(registry)
              /\ UNCHANGED <<loads, handleFaults>>
           \/ /\ Position(registry, name) = 0
              /\ name \in Shared
              /\ loads' = loads + 1
              /\ found(fuse_load_so_module(registry, name))
              /\ UNCHANGED handleFaults
           \/ /\ Position(registry, name) = 0
              /\ IF name \in Shared THEN HandleFails ELSE UNCHANGED handleFaults
              /\ handle' = [handle EXCEPT ![h].at = "unwind"]
              /\ UNCHANGED <<registry, loads>>
        /\ UNCHANGED <<builtins, ref, key, news, emptied>>

(* fuse_put_module(): a module nobody uses is unregistered, and its shared  *)
(* object closed.                                                           *)
fuse_put_module(reg, i) ==
    IF reg[i].ctr > 1 THEN [reg EXCEPT ![i].ctr = @ - 1]
                      ELSE RemoveAt(reg, i)

(* fuse_push_module() after fuse_get_module(): the factory builds a layer   *)
(* on the handle's stack or fails.                                          *)
fuse_push_module(h) ==
    /\ handle[h].at = "factory"
    /\ \/ /\ handle' = [handle EXCEPT ![h].at = "modules", ![h].todo = Tail(@),
                           ![h].layers = handle[h].module \o @, ![h].module = <<>>]
          /\ UNCHANGED <<registry, handleFaults>>
       \/ /\ HandleFails
          /\ registry' = fuse_put_module(registry,
                             Position(registry, handle[h].module[1].name))
          /\ handle' = [handle EXCEPT ![h].at = "unwind", ![h].module = <<>>]
    /\ UNCHANGED <<builtins, ref, key, loads, news, emptied>>

(* The rest of fuse_new(): session, node tables, root node; every failure   *)
(* goes through the same labels.                                            *)
fuse_new_ends(h) ==
    /\ handle[h].at = "modules" /\ handle[h].todo = <<>>
    /\ \/ handle' = [handle EXCEPT ![h].at = "live"] /\ UNCHANGED handleFaults
       \/ HandleFails /\ handle' = [handle EXCEPT ![h].at = "unwind"]
    /\ UNCHANGED <<registry, builtins, ref, key, loads, news, emptied>>

(* fuse_delete_context_key(): the last user deletes the key. *)
fuse_delete_context_key == ref' = ref - 1 /\ key' = (ref > 1)

(* Labels out_free_fs and out_delete_context_key: only the topmost layer is *)
(* freed and no module is put back.                                         *)
out_delete_context_key(h) ==
    /\ handle[h].at = "unwind"
    /\ handle' = [handle EXCEPT ![h] = None]
    /\ fuse_delete_context_key
    /\ UNCHANGED <<registry, builtins, loads, news, emptied, handleFaults>>

(* fuse_destroy(): hidden files are unlinked through the layers, then ALL   *)
(* registered modules are put until none is left, whoever uses them.        *)
fuse_destroy(h) ==
    /\ handle[h].at = "live"
    /\ \A g \in Handles : handle[g].at \in {"none", "live"}
    /\ handle' = [handle EXCEPT ![h].at = "closing"]
    /\ registry' = <<>>
    /\ emptied' = {g \in Handles : handle[g].at = "live"}
    /\ UNCHANGED <<builtins, ref, key, loads, news, handleFaults>>

(* The session is destroyed after that: if FUSE_INIT was served and no      *)
(* FUSE_DESTROY, its destroy operation goes through the layers, whose       *)
(* shared objects are closed by now.  Then the handle gives up the key.     *)
fuse_session_destroy(h) ==
    /\ handle[h].at = "closing"
    /\ handle' = [handle EXCEPT ![h] = None]
    /\ emptied' = emptied \ {h}
    /\ fuse_delete_context_key
    /\ UNCHANGED <<registry, builtins, loads, news, handleFaults>>

ModuleLists == {<<>>} \cup {<<m>> : m \in ModuleNames} \cup
               {<<m, n>> : m \in ModuleNames, n \in ModuleNames}

HandlesNext ==
    \E h \in Handles :
        \/ \E modules \in ModuleLists : fuse_new(h, modules)
        \/ fuse_create_context_key(h)
        \/ fuse_fs_new(h)
        \/ fuse_get_module(h)
        \/ fuse_push_module(h)
        \/ fuse_new_ends(h)
        \/ out_delete_context_key(h)
        \/ fuse_destroy(h)
        \/ fuse_session_destroy(h)

-----------------------------------------------------------------------------
(* The key of fuse_get_context() exists exactly while some handle holds a   *)
(* reference to it, and every handle past fuse_create_context_key() holds   *)
(* one: whichever way fuse_new() fails, and in whatever order handles are   *)
(* destroyed, the key is neither leaked nor deleted under a live handle     *)
(* (fuse_create_context_key, fuse_delete_context_key).                      *)
KeyExact ==
    /\ ref = Cardinality({h \in Handles : handle[h].at \notin {"none", "key"}})
    /\ key = (ref > 0)

(* The layers of a handle, and the module whose factory runs for it.        *)
Uses(h) == handle[h].layers \o handle[h].module
UsersOf(layer) ==
    UNION {{<<h, i>> : i \in {i \in DOMAIN Uses(h) : Uses(h)[i] = layer}} : h \in Handles \ emptied}

(* Until the first fuse_destroy() puts the modules of all handles, a module *)
(* is registered at most once, it counts at least the handles that use it,  *)
(* and what a handle uses is registered, so that its shared object stays    *)
(* mapped: a handle that fails half-way puts back only what it took         *)
(* (fuse_find_module, fuse_put_module).  From that moment on nothing is     *)
(* promised to the handles there were: not to the others, which go on       *)
(* serving, nor to the destroy operation of the one being destroyed.        *)
ModulesCounted ==
    /\ \A i, j \in DOMAIN registry : registry[i].name = registry[j].name => i = j
    /\ \A h \in Handles \ emptied : \A i \in DOMAIN Uses(h) :
          \E m \in ToSet(registry) :
              /\ Layer(m) = Uses(h)[i]
              /\ m.ctr >= Cardinality(UsersOf(Layer(m)))

(* The context key lives as long as some handle, and the modules are counted *)
(* by the handles that use them until a fuse_destroy() puts them all.        *)
HandlesBacked ==
    KeyExact /\ ModulesCounted
=============================================================================
