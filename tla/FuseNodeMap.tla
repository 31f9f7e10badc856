---------------------------- MODULE FuseNodeMap ----------------------------
(***************************************************************************)
(* What the node tables of the library promise: a node is found by its id,  *)
(* and under its name while it has one; ids are given out with a generation *)
(* that makes the pair new.                                                  *)
(***************************************************************************)
CONSTANTS Keys, Ids, Absent, Root

VARIABLES byName, byId, issued

mapVars == <<byName, byId, issued>>

MapInit ==
  /\ byName = [k \in Keys |-> Absent]
  /\ byId = [i \in Ids |-> IF i = Root.id THEN Root ELSE Absent]
  /\ issued = {Root}

Create ==
  LET was == byName IN
  \E node \in issued' \ issued :
    /\ byId[node.id] = Absent
    /\ \E k \in Keys : was[k] = Absent /\ byName' = [was EXCEPT ![k] = node]
    /\ byId' = [byId EXCEPT ![node.id] = node]
    /\ issued' = issued \cup {node}

(* The allocation of the name fails: the number is spent, the node is not    *)
(* there.                                                                    *)
CreateFails ==
  /\ \E node \in issued' \ issued : issued' = issued \cup {node}
  /\ UNCHANGED <<byName, byId>>

(* Names move or go; a name that moved may get lost for want of memory.      *)
Renames ==
  /\ LET was == byName
         now == byName'
     IN  /\ now # was
         /\ \E k, l \in Keys :
               \/ now = [was EXCEPT ![k] = Absent]
               \/ now = [was EXCEPT ![k] = Absent, ![l] = Absent]
               \/ now = [was EXCEPT ![k] = Absent, ![l] = was[k]]
               \/ now = [was EXCEPT ![k] = was[l], ![l] = was[k]]
  /\ UNCHANGED <<issued, byId>>

Delete ==
  /\ UNCHANGED issued
  /\ LET was == byName
         ids == byId
         left == byId'
     IN  /\ left # ids
         /\ \E node \in {ids[i] : i \in Ids} \ {Absent} :
              /\ left = [ids EXCEPT ![node.id] = Absent]
              /\ byName' = [k \in Keys |-> IF was[k] = node THEN Absent ELSE was[k]]

MapNext == Create \/ CreateFails \/ Renames \/ Delete

MapSpec == MapInit /\ [][MapNext]_mapVars
=============================================================================
