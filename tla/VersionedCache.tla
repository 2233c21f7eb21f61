---------------------------- MODULE VersionedCache ----------------------------
(***************************************************************************)
(* What the VRP store promises its readers: a cache with versions.  An     *)
(* update is asked for and later takes effect in one step.  The step gives *)
(* the whole new set the next serial; the serials a router may still ask a *)
(* difference from are the current one and those at most Keep behind it.   *)
(***************************************************************************)
EXTENDS Integers

CONSTANTS Data,        \* the values that can be stored
          InitData,    \* the value before the first update
          Max,         \* the largest serial
          Keep         \* how many earlier versions stay answerable

VARIABLES data,        \* the current value
          serial,      \* its serial
          answerable,  \* the serials differences are kept for
          pending      \* the updates asked for and not yet effective

cacheVars == <<data, serial, answerable, pending>>

\* How many updates s is behind t.
Behind(s, t) == IF t >= s THEN t - s ELSE t - s + Max + 1

CacheInit ==
  /\ data = InitData
  /\ serial = 0
  /\ answerable = {}
  /\ pending = {}

\* The first serial can be chosen until there is a first value.
ChooseSerial(s) ==
  /\ answerable = {}
  /\ pending = {}
  /\ serial' = s
  /\ UNCHANGED <<data, answerable, pending>>

Ask(d) ==
  /\ pending = {}
  /\ pending' = {d}
  /\ UNCHANGED <<data, serial, answerable>>

NextSerial ==
  IF answerable = {} THEN serial ELSE IF serial = Max THEN 0 ELSE serial + 1

Publish(d) ==
  /\ pending = {d}
  /\ pending' = {}
  /\ data' = d
  /\ serial' = NextSerial
  /\ answerable' =
       {NextSerial} \cup {s \in answerable : Behind(s, NextSerial) <= Keep}

CacheNext ==
  \/ \E s \in 0 .. Max : ChooseSerial(s)
  \/ \E d \in Data : Ask(d) \/ Publish(d)

CacheSpec == CacheInit /\ [][CacheNext]_cacheVars

=============================================================================
