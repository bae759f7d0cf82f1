--------------------------- MODULE RegistryLemmas ---------------------------
(***************************************************************************)
(* What the registry's operations do to a registry, for every set of tools *)
(* and capabilities.                                                       *)
(***************************************************************************)
EXTENDS ToolRegistry, FiniteSetTheorems, TLAPS

LEMMA RegistryFinite ==
  ASSUME NEW reg, IsRegistry(reg)
  PROVE  IsFiniteSet(DOMAIN reg)
  BY ToolsFinite, FS_Subset DEF IsRegistry

(* A tool's place among the providers of a capability is a number: the     *)
(* registry is finite.                                                     *)
LEMMA RankType ==
  ASSUME NEW reg, NEW cap, NEW n, IsRegistry(reg)
  PROVE  Rank(reg, cap, n) \in Nat
<1> DEFINE above == {m \in Offers(reg, cap) : Precedes(reg, m, n)}
<1>1. above \subseteq Tools
  BY DEF above, Offers, IsRegistry
<1>2. IsFiniteSet(above)
  BY <1>1, ToolsFinite, FS_Subset
<1> QED
  BY <1>2, FS_CardinalityType DEF Rank

(* Registering keeps a registry well formed, stamps distinct included.     *)
LEMMA RegisterType ==
  ASSUME NEW reg, IsRegistry(reg), NEW name \in Tools, NEW manifest \in Manifest,
         NEW stamp \in Nat,
         name \in DOMAIN reg \/ \A n \in DOMAIN reg : reg[n].since < stamp
  PROVE  IsRegistry(Register(reg, name, manifest, stamp))
<1> DEFINE new == Register(reg, name, manifest, stamp)
<1>1. DOMAIN new = DOMAIN reg \cup {name}
  BY DEF Register
<1>2. \A n \in DOMAIN reg : n # name => new[n] = reg[n]
  BY DEF Register
<1>3. new[name] = [manifest |-> manifest,
                   since |-> IF name \in DOMAIN reg THEN reg[name].since
                             ELSE stamp]
  BY DEF Register
<1>4. \A n \in DOMAIN reg : reg[n] \in Entry /\ reg[n].since \in Nat
  BY DEF IsRegistry, Entry
<1>5. new[name] \in Entry
  BY <1>3, <1>4 DEF Entry
<1>6. new \in [DOMAIN new -> Entry]
  BY <1>1, <1>2, <1>4, <1>5 DEF Register
<1>7. ASSUME NEW m \in DOMAIN new, NEW n \in DOMAIN new,
             new[m].since = new[n].since
      PROVE  m = n
  <2>1. ASSUME NEW k \in DOMAIN new, k # name
        PROVE  k \in DOMAIN reg /\ new[k] = reg[k]
    BY <1>1, <1>2, <2>1
  <2>2. \A k \in DOMAIN reg : k # name => reg[k].since # new[name].since
    BY <1>3, <1>4 DEF IsRegistry
  <2> QED
    BY <1>7, <2>1, <2>2 DEF IsRegistry
<1> QED
  BY <1>1, <1>6, <1>7 DEF IsRegistry

LEMMA UnregisterType ==
  ASSUME NEW reg, IsRegistry(reg), NEW name
  PROVE  IsRegistry(Unregister(reg, name))
  BY DEF IsRegistry, Unregister
=============================================================================
