---------------------------------- MODULE LruCache ----------------------------------
(***************************************************************************)
(* The cache of lib/algos/cache/LRUCache.js: a map of entries, which are   *)
(* also the cells of a doubly linked list in the order of their last use.  *)
(* The MongoDB backend keeps the key formats of buckets in one.            *)
(*                                                                         *)
(* The map has one entry of a key, so that an entry is named by its key;   *)
(* what the links of an entry that has been removed are does not matter.   *)
(***************************************************************************)
EXTENDS Integers, Sequences

CONSTANTS
    LruKeys,
    LruValues,
    MaxEntries,     \* _maxEntries
    NoEntry         \* null, and undefined

ASSUME LruAssumption ==
    MaxEntries \in Nat \ {0} /\ NoEntry \notin LruKeys

VARIABLES
    entryMap,       \* _entryMap: the values of the entries
    entryCount,     \* _entryCount
    links,          \* _lruHead, _lruTail, and _lruNext and _lruPrev of the entries
    lruAnswer       \* the last call and what it returned

lruVars == <<entryMap, entryCount, links, lruAnswer>>

NoLinks ==
    [head |-> NoEntry, tail |-> NoEntry,
     next |-> [key \in LruKeys |-> NoEntry], prev |-> [key \in LruKeys |-> NoEntry]]

LruInit ==
    /\ entryMap = [key \in {} |-> NoEntry] /\ entryCount = 0
    /\ links = NoLinks
    /\ lruAnswer = <<"clear", NoEntry>>

----------------------------------------------------------------------------
(* The list.                                                               *)

\* A link of an entry, if there is one, is set.
Link(field, entry, to) == IF entry = NoEntry THEN field ELSE [field EXCEPT ![entry] = to]

lruPushEntry(l, entry) ==
    [head |-> entry,
     tail |-> IF l.tail = NoEntry THEN entry ELSE l.tail,
     next |-> [l.next EXCEPT ![entry] = l.head],
     prev |-> Link([l.prev EXCEPT ![entry] = NoEntry], l.head, entry)]

\* Mutant: the tail stays when its entry is removed.
lruRemoveForward(l, entry) ==
    LET next == l.next[entry]
        prev == l.prev[entry]
    IN  [head |-> IF prev = NoEntry THEN next ELSE l.head,
         tail |-> l.tail,
         next |-> Link(l.next, prev, next),
         prev |-> Link(l.prev, next, prev)]

lruRemoveEntry(l, entry) ==
    LET next == l.next[entry]
        prev == l.prev[entry]
    IN  [head |-> IF prev = NoEntry THEN next ELSE l.head,
         tail |-> IF next = NoEntry THEN prev ELSE l.tail,
         next |-> Link(l.next, prev, next),
         prev |-> Link(l.prev, next, prev)]

\* _removeEntry(), of the map and of the list.
Dropped(entries, key) == [k \in DOMAIN entries \ {key} |-> entries[k]]

Unlinked(l, entry) ==
    [lruRemoveEntry(l, entry) EXCEPT !.next[entry] = NoEntry, !.prev[entry] = NoEntry]

----------------------------------------------------------------------------
(* The calls.                                                              *)

\* add() of a key that has an entry.
Update(key, value) ==
    /\ key \in DOMAIN entryMap
    /\ entryMap' = [entryMap EXCEPT ![key] = value]
    /\ links' = lruPushEntry(lruRemoveEntry(links, key), key)
    /\ lruAnswer' = <<"add", TRUE>>
    /\ UNCHANGED entryCount

\* add() of another key, which removes the entry at the tail first if the cache is full.
Insert(key, value) ==
    /\ key \notin DOMAIN entryMap
    /\ LET full == entryCount = MaxEntries
           kept == IF full THEN Dropped(entryMap, links.tail) ELSE entryMap
           left == IF full THEN Unlinked(links, links.tail) ELSE links
       IN  /\ entryMap' = [k \in DOMAIN kept \cup {key} |-> IF k = key THEN value ELSE kept[k]]
           /\ entryCount' = (IF full THEN entryCount - 1 ELSE entryCount) + 1
           /\ links' = lruPushEntry(left, key)
    /\ lruAnswer' = <<"add", FALSE>>

get(key) ==
    \/ /\ key \in DOMAIN entryMap
       /\ links' = lruPushEntry(lruRemoveEntry(links, key), key)
       /\ lruAnswer' = <<"get", entryMap[key]>>
       /\ UNCHANGED <<entryMap, entryCount>>
    \/ /\ key \notin DOMAIN entryMap
       /\ lruAnswer' = <<"get", NoEntry>>
       /\ UNCHANGED <<entryMap, entryCount, links>>

remove(key) ==
    \/ /\ key \in DOMAIN entryMap
       /\ links' = Unlinked(links, key)
       /\ entryMap' = Dropped(entryMap, key)
       /\ entryCount' = entryCount - 1
       /\ lruAnswer' = <<"remove", TRUE>>
    \/ /\ key \notin DOMAIN entryMap
       /\ lruAnswer' = <<"remove", FALSE>>
       /\ UNCHANGED <<entryMap, entryCount, links>>

count == lruAnswer' = <<"count", entryCount>> /\ UNCHANGED <<entryMap, entryCount, links>>

clear ==
    /\ entryMap' = [key \in {} |-> NoEntry] /\ entryCount' = 0
    /\ links' = NoLinks
    /\ lruAnswer' = <<"clear", NoEntry>>

LruNext ==
    \/ \E key \in LruKeys, value \in LruValues : Update(key, value) \/ Insert(key, value)
    \/ \E key \in LruKeys : get(key) \/ remove(key)
    \/ count
    \/ clear

LruSpec == LruInit /\ [][LruNext]_lruVars

----------------------------------------------------------------------------
(* Properties.                                                             *)

\* The first n entries of the list.
ListedFrom(l, n) ==
    LET at[i \in 1..n] ==
            IF i = 1 THEN l.head
            ELSE IF at[i - 1] = NoEntry THEN NoEntry ELSE l.next[at[i - 1]]
    IN  [i \in 1..n |-> at[i]]

\* The entries from the head on, as many as are counted.
Listed == ListedFrom(links, entryCount)

Promised ==
    INSTANCE RecentlyUsed WITH
        Keys <- LruKeys, Values <- LruValues, Capacity <- MaxEntries, Nothing <- NoEntry,
        recent <- Listed, valueOf <- entryMap, answer <- lruAnswer

\* The map, the counter and the links are, after any calls, what makes a cache of the
\* MaxEntries keys used last: the list names the entries of the map once each in the
\* order of their last use, and it is the last one of them that goes.
ImplementsRecentlyUsed == Promised!RuSpec
================================================================================
