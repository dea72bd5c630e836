------------------------------ MODULE EntityKey ------------------------------
(***************************************************************************)
(* entity_key, a map of names to values with a digest, and the cache in    *)
(* which entity_service::require looks entities up by key.  Copies of a    *)
(* key share an impl, as the key in the cache does; set and merge make a   *)
(* new impl first if theirs is shared.                                     *)
(*                                                                         *)
(* Assertions are off, as in a release build: lock asserts that the key is *)
(* locked already (entity_key.cpp:59), which stops any other build.  The   *)
(* callers do as prepare_fix_connector does: they lock a key before they   *)
(* require it, and set a locked key only through a copy.                   *)
(***************************************************************************)
EXTENDS Naturals, SequencesExt

CONSTANTS
    KeyVar,      \* the program's variables of type entity_key
    Name, Val,   \* the names and values in keys
    MaxCached    \* bound on the entries of the cache

ASSUME KeyAssumption == IsFiniteSet(KeyVar) /\ KeyVar /= {} /\ MaxCached \in Nat

VARIABLES
    impl,     \* the impls in use, by number
    held,     \* the impl of each variable
    cached,   \* cache_: its keys' impls, and the values each was required with
    handles   \* those whose entity is alive

keyVars == <<impl, held, cached, handles>>

Unlocked(m) == [values |-> m, locked |-> FALSE, hash |-> 0]

\* Different maps may have one hash.
Digest(m) == 1 + Cardinality(DOMAIN m)

Locked(m) == [values |-> m, locked |-> TRUE, hash |-> Digest(m)]

KeyInit ==
    /\ held = [k \in KeyVar |-> 1]
    /\ impl = [i \in {1} |-> Unlocked(<<>>)]
    /\ cached = <<>> /\ handles = {}

InUse(h, c) == Range(h) \cup DOMAIN c

\* Let the variables have the impls h, whose records are in f; an impl that nobody
\* has any more is gone.
Hold(h, f) ==
    /\ held' = h
    /\ impl' = [i \in InUse(h, cached) |-> f[i]]
    /\ UNCHANGED <<cached, handles>>

Shared(k) == held[k] \in DOMAIN cached \/ \E j \in KeyVar \ {k} : held[j] = held[k]

Fresh == CHOOSE i \in 1..Cardinality(DOMAIN impl) + 1 : i \notin DOMAIN impl

\* Mutant of Own: nobody makes a new impl.
OwnInPlace(k) == held[k]

\* copy_check: the impl that k may change.
Own(k) == IF Shared(k) THEN Fresh ELSE held[k]

\* k has the impl i for itself, with the values m.
SetImpl(k, i, m) ==
    Hold([held EXCEPT ![k] = i],
         [j \in DOMAIN impl \cup {i} |-> IF j = i THEN Unlocked(m) ELSE impl[j]])

ConstructKey(k) == SetImpl(k, Fresh, <<>>)

CopyKey(k, j) == held[k] /= held[j] /\ Hold([held EXCEPT ![k] = held[j]], impl)

SetKey(k, n, v) ==
    /\ impl[held[k]].locked => Shared(k)
    /\ SetImpl(k, Own(k), (n :> v) @@ impl[held[k]].values)

\* merge: what is there already stays.
MergeKey(k, j) ==
    /\ ~impl[held[k]].locked
    /\ SetImpl(k, Own(k), impl[held[k]].values @@ impl[held[j]].values)

\* lock, for all that share the impl.
LockKey(k) ==
    /\ ~impl[held[k]].locked
    /\ impl' = [impl EXCEPT ![held[k]] = Locked(@.values)]
    /\ UNCHANGED <<held, cached, handles>>

\* operator==
SameKey(i, j) ==
    i = j \/ (impl[i].hash = impl[j].hash /\ impl[i].values = impl[j].values)

\* require: the entry of an equal key, or a new one, whose key is a copy of k.  It
\* has an entity afterwards, unless making that throws; the entry stays.
Require(k) ==
    /\ impl[held[k]].locked
    /\ \E c \in DOMAIN cached \cup {held[k]} :
        /\ SameKey(c, held[k])
        /\ c \in DOMAIN cached \/ \A d \in DOMAIN cached : ~SameKey(d, held[k])
        /\ cached' = [d \in DOMAIN cached \cup {c} |->
                        IF d \in DOMAIN cached THEN cached[d] ELSE impl[c].values]
        /\ Cardinality(DOMAIN cached') <= MaxCached
        /\ handles' = handles \cup {c} \/ handles' = handles
    /\ UNCHANGED <<impl, held>>

\* The last user of an entity lets go of it.
ReleaseEntity(c) ==
    /\ c \in handles
    /\ handles' = handles \ {c}
    /\ UNCHANGED <<impl, held, cached>>

KeyNext ==
    \/ \E k \in KeyVar :
        \/ ConstructKey(k) \/ LockKey(k) \/ Require(k)
        \/ \E j \in KeyVar : CopyKey(k, j) \/ MergeKey(k, j)
        \/ \E n \in Name, v \in Val : SetKey(k, n, v)
    \/ \E c \in handles : ReleaseEntity(c)

KeySpec == KeyInit /\ [][KeyNext]_keyVars

-----------------------------------------------------------------------------
(* Properties *)

\* entity_service::require finds what was required before: a key in the cache keeps
\* the values it was required with and their digest, whatever its copies, which
\* share its impl, are set to, and no two keys there have the same values.
OneEntryPerKey ==
    \A c \in DOMAIN cached :
        /\ impl[c].locked
        /\ impl[c].values = cached[c] /\ impl[c].hash = Digest(cached[c])
        /\ \A d \in DOMAIN cached : cached[d] = cached[c] => d = c
=============================================================================
