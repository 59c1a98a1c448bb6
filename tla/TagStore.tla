------------------------------ MODULE TagStore ------------------------------
(***************************************************************************)
(* What file tags promise: for each place that holds tags, a map of at     *)
(* most NTAG keys, changed one key at a time; what a caller is told of a   *)
(* key; and for a search, the files that had the tag when it came to them. *)
(***************************************************************************)
EXTENDS Integers, FiniteSets

CONSTANTS Place, Key, Value, NoValue, NTAG, MAXVALUE

VARIABLES map,      \* the tags of each place
          who,      \* the file each place belongs to, as its owner decides
          found     \* files the search has reported

storevars == <<map, found>>

Defined(m) == {k \in Key : m[k] # NoValue}

Empty == [s \in Place |-> [k \in Key |-> NoValue]]

StoreInit == map = Empty /\ found = {}

Put == \E s \in Place, k \in Key, v \in Value :
           /\ Cardinality(Defined(map[s]) \cup {k}) <= NTAG
           /\ map' = [map EXCEPT ![s][k] = v]
           /\ UNCHANGED found

Remove == \E s \in Place, k \in Key :
              /\ map[s][k] # NoValue
              /\ map' = [map EXCEPT ![s][k] = NoValue]
              /\ UNCHANGED found

Report(key, value) == \E s \in Place : /\ map[s][key] = value
                                      /\ found' = found \cup {who'[s]}
                                      /\ UNCHANGED map

Forget == found' = {} /\ UNCHANGED map

Restart == map' = Empty /\ found' = {}

StoreNext == \/ Put \/ Remove \/ Forget \/ Restart
             \/ \E k \in Key, v \in Value : Report(k, v)

StoreSpec == StoreInit /\ [][StoreNext]_storevars
(***************************************************************************)
(* What a caller may be told of a map: a key's value, or how long it is    *)
(* when the buffer is shorter (a longer buffer is filled up to MAXVALUE);  *)
(* and the keys there are.                                                 *)
(***************************************************************************)
Told(m, k, n) ==
    IF m[k] = NoValue THEN [ret |-> -1]
    ELSE IF m[k] > n THEN [ret |-> m[k]]
    ELSE [ret |-> IF n < MAXVALUE THEN n ELSE MAXVALUE, copied |-> m[k]]
=============================================================================
