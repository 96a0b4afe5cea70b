------------------------------- MODULE RecentlyUsed -------------------------------
(***************************************************************************)
(* What a cache of a bounded number of entries promises: it keeps the      *)
(* values of the keys used last, and forgets the one that has not been     *)
(* used for longest when it needs room.                                    *)
(***************************************************************************)
EXTENDS SequencesExt, Integers

CONSTANTS Keys, Values, Capacity, Nothing

VARIABLES
    recent,     \* the cached keys, the one used last first
    valueOf,    \* their values
    answer      \* the last call and what it returned

ruVars == <<recent, valueOf, answer>>

IsCached(key) == \E i \in 1..Len(recent) : recent[i] = key
Without(key) == RemoveAt(recent, CHOOSE i \in 1..Len(recent) : recent[i] = key)

RuInit == recent = <<>> /\ valueOf = [key \in {} |-> Nothing] /\ answer = <<"clear", Nothing>>

\* A key that is cached gets its new value.
AddAgain(key, value) ==
    /\ IsCached(key)
    /\ recent' = <<key>> \o Without(key)
    /\ valueOf' = [valueOf EXCEPT ![key] = value]
    /\ answer' = <<"add", TRUE>>

\* Another key takes the place of the one used longest ago, if the cache is full.
AddNew(key, value) ==
    /\ ~IsCached(key)
    /\ LET kept == IF Len(recent) = Capacity THEN Front(recent) ELSE recent
       IN  /\ recent' = <<key>> \o kept
           /\ valueOf' = [k \in {kept[i] : i \in 1..Len(kept)} \cup {key} |->
                            IF k = key THEN value ELSE valueOf[k]]
    /\ answer' = <<"add", FALSE>>

Use(key) ==
    \/ /\ IsCached(key)
       /\ recent' = <<key>> \o Without(key) /\ answer' = <<"get", valueOf[key]>>
       /\ UNCHANGED valueOf
    \/ ~IsCached(key) /\ answer' = <<"get", Nothing>> /\ UNCHANGED <<recent, valueOf>>

Forget(key) ==
    \/ /\ IsCached(key)
       /\ recent' = Without(key) /\ answer' = <<"remove", TRUE>>
       /\ valueOf' = [k \in DOMAIN valueOf \ {key} |-> valueOf[k]]
    \/ ~IsCached(key) /\ answer' = <<"remove", FALSE>> /\ UNCHANGED <<recent, valueOf>>

Count == answer' = <<"count", Len(recent)>> /\ UNCHANGED <<recent, valueOf>>

Clear ==
    recent' = <<>> /\ valueOf' = [key \in {} |-> Nothing] /\ answer' = <<"clear", Nothing>>

RuNext ==
    \/ \E key \in Keys, value \in Values : AddAgain(key, value) \/ AddNew(key, value)
    \/ \E key \in Keys : Use(key) \/ Forget(key)
    \/ Count
    \/ Clear

RuSpec == RuInit /\ [][RuNext]_ruVars
================================================================================
