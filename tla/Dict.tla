-------------------------------- MODULE Dict --------------------------------
(***************************************************************************)
(* The hash table of hiredis (dict.c), in which the asynchronous client    *)
(* keeps the callbacks of its subscriptions: chains of entries, new ones   *)
(* in front, in a table that doubles when it is full.  A table is a        *)
(* record; the operators are the functions of dict.c and give the table    *)
(* they leave behind.  Allocation does not fail.                           *)
(***************************************************************************)
EXTENDS Integers, Sequences, SequencesExt

CONSTANTS
    Key,
    hash,                   \* the hash of each key, dictHashKey
    DICT_HT_INITIAL_SIZE,
    NoEntry                 \* what dictFind gives for a key that is not there

ASSUME HashAssumption == hash \in [Key -> Nat]
ASSUME InitialSizeAssumption == DICT_HT_INITIAL_SIZE \in Nat \ {0}

\* _dictReset: no table yet.
EmptyDict == [size |-> 0, used |-> 0, table |-> <<>>]

\* & sizemask in the code, which is the same: sizes are powers of two there.
Slot(ht, key) == hash[key] % ht.size

\* The entries in the order of a dictIterator: slot by slot, along the chains.
Entries(ht) == FlattenSeq([i \in 1..ht.size |-> ht.table[i - 1]])

\* The initial size, doubled until it is large enough: i after each round.
_dictNextPower(size) ==
    LET i[round \in 0..size] ==
            IF round = 0 THEN DICT_HT_INITIAL_SIZE
            ELSE LET before == i[round - 1] IN IF before >= size THEN before ELSE before * 2
    IN  i[size]

\* The entries move to a larger table, each to the front of its new chain.
dictExpand(ht, size) ==
    IF ht.used > size THEN ht ELSE
    LET realsize == _dictNextPower(size)
        entries  == Entries(ht)
        linked[k \in 0..Len(entries)] ==
            IF k = 0 THEN [slot \in 0..(realsize - 1) |-> <<>>]
            ELSE [linked[k - 1] EXCEPT ![hash[entries[k].key] % realsize] = <<entries[k]>> \o @]
    IN  [size |-> realsize, used |-> ht.used, table |-> linked[Len(entries)]]

_dictExpandIfNeeded(ht) ==
    IF ht.size = 0            THEN dictExpand(ht, DICT_HT_INITIAL_SIZE)
    ELSE IF ht.used = ht.size THEN dictExpand(ht, ht.size * 2)
    ELSE ht

\* The positions of key in the chain of its slot.
Places(ht, key) ==
    IF ht.size = 0 THEN {}
    ELSE LET chain == ht.table[Slot(ht, key)] IN {i \in DOMAIN chain : chain[i].key = key}

First(places) == CHOOSE i \in places : \A j \in places : i <= j

dictFind(ht, key) ==
    IF Places(ht, key) = {} THEN NoEntry
    ELSE ht.table[Slot(ht, key)][First(Places(ht, key))].val

\* The table grows before the key is looked for, even if it is there already.
dictReplace(ht, key, val) ==
    LET grown == _dictExpandIfNeeded(ht)
        slot  == Slot(grown, key)
    IN  IF Places(grown, key) = {}
        THEN [grown EXCEPT !.table[slot] = <<[key |-> key, val |-> val]>> \o @,
                           !.used = @ + 1]
        ELSE [grown EXCEPT !.table[slot][First(Places(grown, key))].val = val]

\* mutant: the chain is cut at the deleted entry
dictDelete_Cuts(ht, key) ==
    IF Places(ht, key) = {} THEN ht
    ELSE [ht EXCEPT !.table[Slot(ht, key)] = SubSeq(@, 1, First(Places(ht, key)) - 1),
                    !.used = @ - 1]

dictDelete(ht, key) ==
    IF Places(ht, key) = {} THEN ht
    ELSE [ht EXCEPT !.table[Slot(ht, key)] = RemoveAt(@, First(Places(ht, key))),
                    !.used = @ - 1]

\* A table is well formed: each entry is in the slot of its key, no key is
\* there twice, and used counts the entries.
WellFormed(ht) ==
    /\ ht.used = Len(Entries(ht))
    /\ \A s \in DOMAIN ht.table : \A i \in DOMAIN ht.table[s] :
          /\ Slot(ht, ht.table[s][i].key) = s
          /\ Places(ht, ht.table[s][i].key) = {i}
    /\ ht.size > 0 => ht.used <= ht.size

=============================================================================
