---------------------------- MODULE AssertionCache ----------------------------
(***************************************************************************)
(* The cache of compiled assertions (assertions/cache.rs) that the checks  *)
(* of a process share: Cache::get_or_compile, with its read and its write  *)
(* lock, by tasks that run at once.  A task that misses compiles outside   *)
(* the lock, so several may compile one assertion.                         *)
(*                                                                         *)
(* The cache is direct mapped (external): an assertion has one slot, given *)
(* by its hash, and a lookup compares the whole key.  What compile makes of*)
(* an assertion is the assertion itself; it has Ops operations.            *)
(***************************************************************************)
EXTENDS Naturals

CONSTANTS
    None,
    Tasks,             \* the tasks that check
    Keys,              \* assertions
    Ops,               \* the number of operations of each
    Slots,             \* bound: Capacity8192
    SlotOf,            \* the slot each assertion hashes to
    MaxAssertionOps    \* config.max_assertion_ops

ASSUME CacheAssumption ==
    /\ None \notin Keys \cup Tasks \cup { "compilation_error" }
    /\ "compilation_error" \notin Keys
    /\ Ops \in [Keys -> Nat]
    /\ SlotOf \in [Keys -> Slots]
    /\ MaxAssertionOps \in Nat

VARIABLES
    compiled,          \* what each slot holds: a key and its compiled assertion
    readers, writer,   \* who holds the RwLock
    at,                \* where get_or_compile is in each task
    key,               \* the assertion a task asks for
    got                \* what it got: an assertion, "compilation_error", or None

cacheVars == <<compiled, readers, writer, at, key, got>>

Entry == [key : Keys, assertion : Keys]

CacheTypeOK ==
    /\ compiled \in [Slots -> Entry \cup {None}]
    /\ readers \subseteq Tasks /\ writer \in Tasks \cup {None}
    /\ writer # None => readers = {}
    /\ at \in [Tasks -> { "idle", "lookup", "reading", "compile", "insert", "inserting" }]
    /\ key \in [Tasks -> Keys \cup {None}]
    /\ got \in [Tasks -> Keys \cup { "compilation_error", None }]

CacheInit ==
    /\ compiled = [s \in Slots |-> None]
    /\ readers = {} /\ writer = None
    /\ at = [t \in Tasks |-> "idle"]
    /\ key = [t \in Tasks |-> None]
    /\ got = [t \in Tasks |-> None]

\* compile accepts at most max_assertion_ops operations.
Compiles(k, max_assertion_ops) == Ops[k] <= max_assertion_ops

\* A task calls get_or_compile.
Ask(t, k) ==
    /\ at' = [at EXCEPT ![t] = "lookup"]
    /\ key' = [key EXCEPT ![t] = k]
    /\ got' = [got EXCEPT ![t] = None]
    /\ UNCHANGED <<compiled, readers, writer>>

\* get_or_compile returns.
Return(t, answer) ==
    /\ at' = [at EXCEPT ![t] = "idle"]
    /\ got' = [got EXCEPT ![t] = answer]
    /\ UNCHANGED key

ReadLock(t) ==
    /\ at[t] = "lookup" /\ writer = None
    /\ readers' = readers \cup {t}
    /\ at' = [at EXCEPT ![t] = "reading"]
    /\ UNCHANGED <<compiled, writer, key, got>>

\* Mutant of Holds: the slot is not compared with the key.
HoldsSlot(t) == compiled[SlotOf[key[t]]] # None

\* AssociativeCache::get
Holds(t) ==
    LET entry == compiled[SlotOf[key[t]]] IN entry # None /\ entry.key = key[t]

Hit(t) ==
    /\ at[t] = "reading" /\ Holds(t)
    /\ Return(t, compiled[SlotOf[key[t]]].assertion)
    /\ readers' = readers \ {t}
    /\ UNCHANGED <<compiled, writer>>

\* Mutant of Miss: the read guard lives to the end of get_or_compile.
MissGuarded(t) ==
    /\ at[t] = "reading" /\ ~ Holds(t)
    /\ at' = [at EXCEPT ![t] = "compile"]
    /\ UNCHANGED <<compiled, readers, writer, key, got>>

\* The read guard is dropped before the assertion is compiled.
Miss(t) ==
    /\ at[t] = "reading" /\ ~ Holds(t)
    /\ readers' = readers \ {t}
    /\ at' = [at EXCEPT ![t] = "compile"]
    /\ UNCHANGED <<compiled, writer, key, got>>

CompileSucceeds(t) ==
    /\ at[t] = "compile" /\ Compiles(key[t], MaxAssertionOps)
    /\ at' = [at EXCEPT ![t] = "insert"]
    /\ UNCHANGED <<compiled, readers, writer, key, got>>

\* An error is returned and not cached.
CompileFails(t) ==
    /\ at[t] = "compile" /\ ~ Compiles(key[t], MaxAssertionOps)
    /\ Return(t, "compilation_error")
    /\ UNCHANGED <<compiled, readers, writer>>

WriteLock(t) ==
    /\ at[t] = "insert" /\ readers = {} /\ writer = None
    /\ writer' = t
    /\ at' = [at EXCEPT ![t] = "inserting"]
    /\ UNCHANGED <<compiled, readers, key, got>>

\* Whatever the slot holds is replaced.
Insert(t) ==
    /\ at[t] = "inserting"
    /\ compiled' = [compiled EXCEPT ![SlotOf[key[t]]] = [key |-> key[t], assertion |-> key[t]]]
    /\ writer' = None
    /\ Return(t, key[t])
    /\ UNCHANGED readers

GetOrCompile(t) ==
    \/ ReadLock(t) \/ Hit(t) \/ Miss(t)
    \/ CompileSucceeds(t) \/ CompileFails(t)
    \/ WriteLock(t) \/ Insert(t)

===============================================================================
