----------------------------- MODULE MCPlanning -----------------------------
(***************************************************************************)
(* Small instances of the planner next to callers that edit registries.    *)
(***************************************************************************)
EXTENDS Planning

MCTools == {"wa", "wb", "note"}
MCCaps == {"weather", "write"}
MCScopes == {"read", "write"}

M(caps, scope) == [caps |-> caps, scope |-> scope, priority |-> 1]

First ==
  [wa |-> M({"weather"}, "read"), wb |-> M({"weather", "write"}, "write"),
   note |-> M({"write"}, "write")]

(* wa may come back with a further capability.                             *)
MCManifests ==
  [wa |-> {First["wa"], M({"weather", "write"}, "read")},
   wb |-> {First["wb"]}, note |-> {First["note"]}]

(* The dict that holds the tools of names in these slots, "" being a hole. *)
D(names, room) ==
  [tools |-> [n \in {names[k] : k \in DOMAIN names} \ {""} |->
                [manifest |-> First[n],
                 since |-> (CHOOSE k \in DOMAIN names : names[k] = n) - 1]],
   used |-> Len(names), room |-> room]

Both(private, global) ==
  [s \in Stores |-> IF s = "private" THEN private ELSE global]

(* Full and empty registries, with and without holes and room.             *)
PlanningDicts ==
  {Both(D(<<>>, 0), g) : g \in {D(<<"wa", "wb">>, 0), D(<<"wb", "", "wa">>, 0),
                                D(<<"note", "wa", "wb">>, 2)}}
  \cup {Both(D(<<"wa", "wb">>, 0), D(<<"wa">>, 1))}

IsolationDicts == {Both(D(<<>>, 0), D(<<"wa", "wb">>, 2))}
=============================================================================
