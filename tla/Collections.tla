------------------------------ MODULE Collections ------------------------------
(***************************************************************************)
(* The containers of lib/algos: the binary heap of heap/Heap.ts, an array  *)
(* of a fixed length, of which the first size elements are used, and the   *)
(* sorted set of set/SortedSet.js, two arrays side by side, with the       *)
(* searches and the difference of set/ArrayUtils.js.                       *)
(*                                                                         *)
(* Elements of the heap of the same rank compare as equal, whichever they  *)
(* are. Indices are those of the code: from 0, and -1 for none.            *)
(***************************************************************************)
EXTENDS SequencesExt, FiniteSets, Integers

-----------------------------------------------------------------------------
(* The heap.                                                               *)

CONSTANTS
    HeapItems,      \* what is put in the heap
    Rank(_),        \* what the compare function compares
    HeapSizes,      \* the sizes that heaps are built with
    NoItem          \* null, and what is undefined

ASSUME HeapAssumption ==
    /\ HeapSizes \subseteq Nat \ {0} /\ NoItem \notin HeapItems
    /\ \A item \in HeapItems : Rank(item) \in Int

VARIABLES
    heap,           \* _heap
    heapSize,       \* size
    maxSize,        \* _maxSize
    heapOrder,      \* _order: -1 for a heap of the least, 1 for a heap of the greatest
    held            \* history: the items added and not removed

heapVars == <<heap, heapSize, maxSize, heapOrder, held>>

parent(i) == (i - 1) \div 2
left(i) == 2 * i + 1
right(i) == 2 * i + 2

HeapInit ==
    /\ maxSize \in HeapSizes /\ heapOrder \in {-1, 1}
    /\ heap = [i \in 0..(maxSize - 1) |-> NoItem] /\ heapSize = 0
    /\ held = {}

compare(x, y) == IF Rank(x) < Rank(y) THEN -1 ELSE IF Rank(x) > Rank(y) THEN 1 ELSE 0

shouldSwap(h, child, at) == compare(h[child], h[at]) = heapOrder

swap(h, i, j) == [h EXCEPT ![i] = h[j], ![j] = h[i]]

\* Mutant: an item sinks to the left child even when the right one comes before it.
heapifyLeft(h, i) ==
    IF left(i) < heapSize /\ shouldSwap(h, left(i), i) THEN swap(h, left(i), i) ELSE h

\* _heapify(): the item at i sinks below its children.
RECURSIVE heapify(_, _)
heapify(h, i) ==
    LET l == left(i)
        r == right(i)
        a == IF l < heapSize /\ shouldSwap(h, l, i) THEN l ELSE i
        c == IF r < heapSize /\ shouldSwap(h, r, a) THEN r ELSE a
    IN  IF c = i THEN h ELSE heapify(swap(h, c, i), c)

\* The loop of add(): the item at c rises above its parents.
RECURSIVE rise(_, _)
rise(h, c) ==
    IF c = 0 \/ ~shouldSwap(h, c, parent(c)) THEN h
    ELSE rise(swap(h, c, parent(c)), parent(c))

\* add(), which returns an error when the heap is full.
HeapAdd(item) ==
    /\ heapSize < maxSize
    /\ heap' = rise([heap EXCEPT ![heapSize] = item], heapSize)
    /\ heapSize' = heapSize + 1
    /\ held' = held \cup {item}
    /\ UNCHANGED <<maxSize, heapOrder>>

\* remove(): the last item takes the place of the first, and sinks while it is still
\* counted at its former place too.
HeapRemove ==
    /\ heapSize > 0
    /\ heap' = heapify([heap EXCEPT ![0] = heap[heapSize - 1]], 0)
    /\ heapSize' = heapSize - 1
    /\ held' = held \ {heap[0]}
    /\ UNCHANGED <<maxSize, heapOrder>>

HeapNext == (\E item \in HeapItems \ held : HeapAdd(item)) \/ HeapRemove

----------------------------------------------------------------------------
(* Properties.                                                             *)

\* After any sequence of calls, peek() is an item of which none comes before, and the
\* heap has the items added and not removed, each once.
HeapIsExact ==
    /\ heapSize = Cardinality(held) /\ held = {heap[i] : i \in 0..(heapSize - 1)}
    /\ held # {} => \A item \in held : compare(item, heap[0]) # heapOrder

-----------------------------------------------------------------------------
(* The sorted set.                                                         *)

CONSTANTS
    SetKeys,        \* the keys, which are numbers here
    SetValues,
    Undefined       \* undefined

ASSUME SortedSetAssumption == SetKeys \subseteq Int

VARIABLES
    setKeys,        \* keys
    setValues,      \* values
    entered          \* history: the values of the keys set and not deleted

setVars == <<setKeys, setValues, entered>>

SetInit == setKeys = <<>> /\ setValues = <<>> /\ entered = [key \in {} |-> Undefined]

----------------------------------------------------------------------------
(* ArrayUtils.                                                             *)

At(arr, i) == IF i \in 0..(Len(arr) - 1) THEN arr[i + 1] ELSE Undefined

\* Mutant: an element that is equal to the value is taken to be above it.
narrowBelow(arr, value) ==
    LET loop[at \in (0..(Len(arr) - 1)) \X (0..(Len(arr) - 1))] ==
            LET i == at[1] + ((at[2] - at[1]) \div 2)
            IN  IF at[2] - at[1] <= 1 THEN at
                ELSE IF At(arr, i) >= value THEN loop[<<at[1], i>>]
                ELSE loop[<<i, at[2]>>]
    IN  loop[<<0, Len(arr) - 1>>]

\* The loop of both searches, from the first and the last index to the two neighbours
\* between which the value belongs.
narrow(arr, value) ==
    LET loop[at \in (0..(Len(arr) - 1)) \X (0..(Len(arr) - 1))] ==
            LET i == at[1] + ((at[2] - at[1]) \div 2)
            IN  IF at[2] - at[1] <= 1 THEN at
                ELSE IF At(arr, i) > value THEN loop[<<at[1], i>>]
                ELSE loop[<<i, at[2]>>]
    IN  loop[<<0, Len(arr) - 1>>]

indexOf(arr, value) ==
    IF arr = <<>> THEN -1
    ELSE LET ends == narrow(arr, value)
         IN  IF At(arr, ends[1]) = value THEN ends[1]
             ELSE IF At(arr, ends[2]) = value THEN ends[2] ELSE -1

indexAtOrBelow(arr, value) ==
    IF arr = <<>> \/ At(arr, 0) > value THEN -1
    ELSE IF At(arr, Len(arr) - 1) <= value THEN Len(arr) - 1
    ELSE narrow(arr, value)[1]

\* symDiff(): the values whose keys are in one of two sets only, in the order of the calls
\* of its callback.
symDiff(k1, k2, v1, v2) ==
    LET walk[at \in (0..Len(k1)) \X (0..Len(k2))] ==
            LET i == at[1]
                j == at[2]
            IN  IF i = Len(k1) THEN SubSeq(v2, j + 1, Len(k2))
                ELSE IF j = Len(k2) THEN SubSeq(v1, i + 1, Len(k1))
                ELSE IF k1[i + 1] < k2[j + 1] THEN <<v1[i + 1]>> \o walk[<<i + 1, j>>]
                ELSE IF k2[j + 1] < k1[i + 1] THEN <<v2[j + 1]>> \o walk[<<i, j + 1>>]
                ELSE walk[<<i + 1, j + 1>>]
    IN  walk[<<0, 0>>]

----------------------------------------------------------------------------
(* The set.                                                                *)

\* set()
SetValue(key, value) ==
    /\ LET index == indexAtOrBelow(setKeys, key)
       IN  IF At(setKeys, index) = key
           THEN /\ setValues' = ReplaceAt(setValues, index + 1, value)
                /\ UNCHANGED setKeys
           ELSE /\ setKeys' = InsertAt(setKeys, index + 2, key)
                /\ setValues' = InsertAt(setValues, index + 2, value)
    /\ entered' = [k \in DOMAIN entered \cup {key} |-> IF k = key THEN value ELSE entered[k]]

\* del()
DeleteKey(key) ==
    /\ LET index == indexOf(setKeys, key)
       IN  IF index >= 0
           THEN setKeys' = RemoveAt(setKeys, index + 1) /\ setValues' = RemoveAt(setValues, index + 1)
           ELSE UNCHANGED <<setKeys, setValues>>
    /\ entered' = [k \in DOMAIN entered \ {key} |-> entered[k]]

ClearSet == setKeys' = <<>> /\ setValues' = <<>> /\ entered' = [key \in {} |-> Undefined]

SetNext ==
    \/ \E key \in SetKeys, value \in SetValues : SetValue(key, value)
    \/ \E key \in SetKeys : DeleteKey(key)
    \/ ClearSet

\* get(), and isSet().
ValueOf(key) ==
    LET index == indexOf(setKeys, key)
    IN  IF index >= 0 THEN setValues[index + 1] ELSE Undefined

----------------------------------------------------------------------------
(* Properties.                                                             *)

Ordered(keys) == \A i, j \in DOMAIN keys : i < j => keys[i] < keys[j]

\* After any sequence of calls the keys are in order, the searches find each of them and
\* no other one, the value of a key is the one set last, and the difference with any
\* other set is made of the values of the keys that only one of the two has.
SortedSetIsExact ==
    /\ Ordered(setKeys) /\ Len(setKeys) = Len(setValues)
    /\ {setKeys[i] : i \in DOMAIN setKeys} = DOMAIN entered
    /\ \A key \in SetKeys :
        /\ ValueOf(key) = IF key \in DOMAIN entered THEN entered[key] ELSE Undefined
        /\ LET index == indexAtOrBelow(setKeys, key)
           IN  \A i \in 0..(Len(setKeys) - 1) : At(setKeys, i) <= key <=> i <= index
    /\ \A other \in SUBSET SetKeys :
        LET keys == SetToSortSeq(other, <)
        IN  symDiff(setKeys, keys, setKeys, keys)
                = SetToSortSeq((DOMAIN entered \ other) \cup (other \ DOMAIN entered), <)
================================================================================
