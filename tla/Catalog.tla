------------------------------- MODULE Catalog -------------------------------
(***************************************************************************)
(* The registry as the dict it is stored in, and capability_catalog's walk *)
(* over it.  An entry's since is its slot.  Removal leaves a hole; a new   *)
(* name takes the next slot, or, when there is no room, a resize first     *)
(* moves the entries together.  Planner threads walk the slots while       *)
(* callers on the event loop change them.                                  *)
(***************************************************************************)
EXTENDS ToolRegistry

CONSTANT FreshRoom   (* Room left by the insertion that resizes a dict.    *)
ASSUME FreshRoomTyped == FreshRoom \in Nat

(* used is the first slot never used, room how many there are from it on.  *)
IsDict(d) ==
  /\ d = [tools |-> d.tools, used |-> d.used, room |-> d.room]
  /\ IsRegistry(d.tools)
  /\ d.used \in Nat /\ d.room \in Nat
  /\ \A n \in DOMAIN d.tools : d.tools[n].since < d.used

Size(d) == Cardinality(DOMAIN d.tools)

(* The entries moved together, in their order.                             *)
Compacted(reg) ==
  [n \in DOMAIN reg |->
     [reg[n] EXCEPT !.since =
        Cardinality({m \in DOMAIN reg : reg[m].since < reg[n].since})]]

(* _tools[name] = RegisteredTool(...)                                      *)
Stored(d, name, manifest) ==
  IF name \in DOMAIN d.tools
    THEN [d EXCEPT !.tools = Register(@, name, manifest, 0)]
  ELSE IF d.room > 0
    THEN [tools |-> Register(d.tools, name, manifest, d.used),
          used |-> d.used + 1, room |-> d.room - 1]
  ELSE [tools |-> Register(Compacted(d.tools), name, manifest, Size(d)),
        used |-> Size(d) + 1, room |-> FreshRoom]

(* _tools.pop(name, None)                                                  *)
Popped(d, name) == [d EXCEPT !.tools = Unregister(@, name)]

-----------------------------------------------------------------------------
(* The iterator behind `for tool in self._tools.values()`: the slot it     *)
(* looks from, the size the dict had at first, and how many entries it     *)
(* still expects.                                                          *)
Walk == [slot : Nat, size : Nat, left : Nat]
BeginWalk(d) == [slot |-> 0, size |-> Size(d), left |-> Size(d)]

Ahead(w, d) == {n \in DOMAIN d.tools : d.tools[n].since >= w.slot}
IsNext(w, d, n) ==
  n \in Ahead(w, d) /\ \A m \in Ahead(w, d) : d.tools[n].since <= d.tools[m].since

(* "dictionary changed size during iteration" and "dictionary keys changed *)
(* during iteration", both RuntimeErrors.                                  *)
WalkBreaks(w, d) == Size(d) # w.size \/ (Ahead(w, d) # {} /\ w.left = 0)
WalkEnds(w, d) == Size(d) = w.size /\ Ahead(w, d) = {}
WalkOn(w, d, n) ==
  [w EXCEPT !.slot = d.tools[n].since + 1, !.left = @ - 1]

-----------------------------------------------------------------------------
(* The catalog: for each capability met so far the tool whose description  *)
(* it shows, the scopes, and the number of tools.                          *)
Line == [describedBy : Tools, scopes : SUBSET Scopes, tool_count : Nat]

(* Mutant of Listed: the last tool's description and scope count.          *)
ListedAnew(catalog, name, manifest) ==
  [cap \in DOMAIN catalog \cup manifest.caps |->
     IF cap \notin manifest.caps THEN catalog[cap]
     ELSE [describedBy |-> name, scopes |-> {manifest.scope},
           tool_count |->
             1 + IF cap \in DOMAIN catalog THEN catalog[cap].tool_count ELSE 0]]

(* The loop body of capability_catalog for one tool.                       *)
Listed(catalog, name, manifest) ==
  [cap \in DOMAIN catalog \cup manifest.caps |->
     IF cap \notin manifest.caps THEN catalog[cap]
     ELSE IF cap \in DOMAIN catalog
       THEN [describedBy |-> catalog[cap].describedBy,
             scopes |-> catalog[cap].scopes \cup {manifest.scope},
             tool_count |-> catalog[cap].tool_count + 1]
     ELSE [describedBy |-> name, scopes |-> {manifest.scope},
           tool_count |-> 1]]

(* What a catalog of registry reg has to say.                              *)
CatalogOf(reg) ==
  [cap \in UNION {reg[n].manifest.caps : n \in DOMAIN reg} |->
     [describedBy |-> CHOOSE n \in Offers(reg, cap) :
                        \A m \in Offers(reg, cap) : reg[n].since <= reg[m].since,
      scopes |-> {reg[n].manifest.scope : n \in Offers(reg, cap)},
      tool_count |-> Cardinality(Offers(reg, cap))]]
=============================================================================
