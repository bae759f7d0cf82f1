---------------------------- MODULE ToolRegistry ----------------------------
(***************************************************************************)
(* The runtime tool registry: a Python dict from tool name to the tool's   *)
(* manifest, mutated by register / unregister and read afresh by every     *)
(* caller.  This module holds the registry as a value, with one operator   *)
(* per operation; the modules that extend it keep such a value in a        *)
(* variable and decide who changes it and when.                            *)
(***************************************************************************)
EXTENDS Integers, FiniteSets

CONSTANTS
  Tools,      (* Tool names.                                               *)
  Caps,       (* Capability tags, those no tool offers included.           *)
  Scopes,     (* Permission classes (ScopeClass).                          *)
  Manifests   (* For each tool name, the manifests callers register it by. *)

(* What routing, gating and resolution read of a ToolManifest.             *)
Manifest == [caps : (SUBSET Caps) \ {{}}, scope : Scopes, priority : Int]

ASSUME ToolsFinite == IsFiniteSet(Tools)
ASSUME ManifestsTyped == Manifests \in [Tools -> SUBSET Manifest]

(* A registered tool; since orders the dict by insertion, so no two tools  *)
(* share it.                                                               *)
Entry == [manifest : Manifest, since : Nat]

IsRegistry(reg) ==
  /\ DOMAIN reg \subseteq Tools
  /\ reg \in [DOMAIN reg -> Entry]
  /\ \A m, n \in DOMAIN reg : reg[m].since = reg[n].since => m = n

-----------------------------------------------------------------------------
(* Registry.register.  Replacing a tool keeps its place in the dict; stamp *)
(* is larger than that of every earlier insertion.                         *)
Register(reg, name, manifest, stamp) ==
  [n \in DOMAIN reg \cup {name} |->
     IF n # name THEN reg[n]
     ELSE [manifest |-> manifest,
           since |-> IF name \in DOMAIN reg THEN reg[name].since ELSE stamp]]

(* Registry.unregister.                                                    *)
Unregister(reg, name) == [n \in DOMAIN reg \ {name} |-> reg[n]]

(* The tools find_by_capability returns, without their order.              *)
Offers(reg, cap) == {n \in DOMAIN reg : cap \in reg[n].manifest.caps}

(* The order of find_by_capability: highest priority first, and, because   *)
(* the sort is stable, earliest insertion first among equals.              *)
Precedes(reg, m, n) ==
  \/ reg[m].manifest.priority > reg[n].manifest.priority
  \/ /\ reg[m].manifest.priority = reg[n].manifest.priority
     /\ reg[m].since < reg[n].since

(* The position of tool n in find_by_capability(cap), from 0.              *)
Rank(reg, cap, n) ==
  Cardinality({m \in Offers(reg, cap) : Precedes(reg, m, n)})
=============================================================================
