--------------------------- MODULE PlanningProofs ---------------------------
(***************************************************************************)
(* Theorems about the planner and the registry it walks, for every set of  *)
(* tools, dict layout, number of edits and budget of attempts.             *)
(***************************************************************************)
EXTENDS Planning, RegistryLemmas, FunctionTheorems

-----------------------------------------------------------------------------
(* Dicts.                                                                  *)

(* A resize moves entries down, keeps their order and leaves no hole.      *)
LEMMA CompactedType ==
  ASSUME NEW reg, IsRegistry(reg)
  PROVE  /\ IsRegistry(Compacted(reg))
         /\ DOMAIN Compacted(reg) = DOMAIN reg
         /\ \A n \in DOMAIN reg :
              /\ Compacted(reg)[n].manifest = reg[n].manifest
              /\ Compacted(reg)[n].since <= reg[n].since
              /\ Compacted(reg)[n].since < Cardinality(DOMAIN reg)
<1> DEFINE below(n) == {m \in DOMAIN reg : reg[m].since < reg[n].since}
           new == Compacted(reg)
<1>1. IsFiniteSet(DOMAIN reg) /\ Cardinality(DOMAIN reg) \in Nat
  BY RegistryFinite, FS_CardinalityType
<1>2. \A n \in DOMAIN reg : reg[n] \in Entry /\ reg[n].since \in Nat
  BY DEF IsRegistry, Entry
<1>3. ASSUME NEW n \in DOMAIN reg
      PROVE  /\ IsFiniteSet(below(n)) /\ Cardinality(below(n)) \in Nat
             /\ Cardinality(below(n)) < Cardinality(DOMAIN reg)
             /\ Cardinality(below(n)) <= reg[n].since
  <2>1. below(n) \in SUBSET DOMAIN reg /\ n \notin below(n)
    BY <1>2
  <2>2. IsFiniteSet(below(n)) /\ Cardinality(below(n)) \in Nat
    BY <1>1, <2>1, FS_Subset, FS_CardinalityType
  <2>3. Cardinality(below(n)) < Cardinality(DOMAIN reg)
    BY <1>1, <2>1, <2>2, FS_Subset
  <2>4. Cardinality(below(n)) <= reg[n].since
    <3> DEFINE f == [m \in below(n) |-> reg[m].since]
               T == 0..(reg[n].since - 1)
    <3>1. f \in [below(n) -> T]
      BY <1>2
    <3>2. \A a, b \in below(n) : f[a] = f[b] => a = b
      BY DEF IsRegistry
    <3>3. f \in Injection(below(n), T)
      BY <3>1, <3>2, Fun_IsInj
    <3>4. IsFiniteSet(T) /\ Cardinality(T) = reg[n].since
      BY <1>2, FS_Interval
    <3> HIDE DEF f, T
    <3> QED
      BY <3>3, <3>4, FS_Injection
  <2> QED
    BY <2>2, <2>3, <2>4
<1>4. DOMAIN new = DOMAIN reg
  BY DEF Compacted
<1>5. ASSUME NEW n \in DOMAIN reg
      PROVE  /\ new[n] = [manifest |-> reg[n].manifest,
                          since |-> Cardinality(below(n))]
             /\ new[n].manifest = reg[n].manifest
             /\ new[n].since = Cardinality(below(n))
  <2>1. new[n] = [reg[n] EXCEPT !.since = Cardinality(below(n))]
    BY DEF Compacted
  <2> HIDE DEF below, new
  <2>2. new[n] = [manifest |-> reg[n].manifest, since |-> Cardinality(below(n))]
    BY <1>2, <2>1 DEF Entry
  <2> QED
    BY <2>2
<1> HIDE DEF below, new
<1>6. new \in [DOMAIN new -> Entry]
  <2>1. ASSUME NEW n \in DOMAIN reg PROVE new[n] \in Entry
    <3>1. reg[n].manifest \in Manifest
      BY <1>2 DEF Entry
    <3>2. Cardinality(below(n)) \in Nat
      BY <1>3
    <3>3. new[n] = [manifest |-> reg[n].manifest,
                    since |-> Cardinality(below(n))]
      BY <1>5
    <3> QED
      BY <3>1, <3>2, <3>3 DEF Entry
  <2> QED
    BY <1>4, <2>1 DEF Compacted, new
<1>7. ASSUME NEW m \in DOMAIN reg, NEW n \in DOMAIN reg,
             reg[m].since < reg[n].since
      PROVE  new[m].since < new[n].since
  <2>1. below(m) \in SUBSET below(n) /\ m \in below(n) /\ m \notin below(m)
    BY <1>2, <1>7 DEF below
  <2>2. Cardinality(below(m)) < Cardinality(below(n))
    BY <1>3, <2>1, FS_Subset
  <2> QED
    BY <1>5, <2>2
<1>8. ASSUME NEW m \in DOMAIN reg, NEW n \in DOMAIN reg,
             new[m].since = new[n].since
      PROVE  m = n
  <2>1. new[m].since \in Nat /\ new[n].since \in Nat
    BY <1>3, <1>5
  <2>2. ~(reg[m].since < reg[n].since) /\ ~(reg[n].since < reg[m].since)
    BY <1>7, <1>8, <2>1
  <2>3. reg[m].since = reg[n].since
    BY <1>2, <2>2
  <2> QED
    BY <2>3 DEF IsRegistry
<1>9. IsRegistry(new)
  BY <1>4, <1>6, <1>8 DEF IsRegistry
<1> QED
  BY <1>3, <1>4, <1>5, <1>9 DEF new

(* What one edit can do to a dict: entries only ever move down, the size   *)
(* changes by one at most, and if it does not no entry moves at all.       *)
Changed(d, e) ==
  /\ IsDict(e)
  /\ \A n \in DOMAIN d.tools \cap DOMAIN e.tools :
       e.tools[n].since <= d.tools[n].since
  /\ Size(e) \in {Size(d) - 1, Size(d), Size(d) + 1}
  /\ Size(e) = Size(d) =>
       /\ DOMAIN e.tools = DOMAIN d.tools
       /\ \A n \in DOMAIN d.tools : e.tools[n].since = d.tools[n].since

LEMMA SizeType ==
  ASSUME NEW d, IsDict(d)
  PROVE  /\ IsFiniteSet(DOMAIN d.tools) /\ Size(d) \in Nat
         /\ \A n \in DOMAIN d.tools : d.tools[n] \in Entry
                                      /\ d.tools[n].since \in Nat
  BY RegistryFinite, FS_CardinalityType DEF IsDict, Size, IsRegistry, Entry

LEMMA StoredType ==
  ASSUME NEW d, IsDict(d), NEW name \in Tools, NEW manifest \in Manifest
  PROVE  Changed(d, Stored(d, name, manifest))
<1> DEFINE e == Stored(d, name, manifest)
<1>1. /\ IsRegistry(d.tools) /\ d.used \in Nat /\ d.room \in Nat
      /\ \A n \in DOMAIN d.tools : d.tools[n].since < d.used
      /\ d = [tools |-> d.tools, used |-> d.used, room |-> d.room]
  BY DEF IsDict
<1>2. /\ IsFiniteSet(DOMAIN d.tools) /\ Size(d) \in Nat
      /\ \A n \in DOMAIN d.tools : d.tools[n].since \in Nat
  BY SizeType
<1>3. CASE name \in DOMAIN d.tools
  <2> DEFINE reg == Register(d.tools, name, manifest, 0)
  <2>1. e = [tools |-> reg, used |-> d.used, room |-> d.room]
    BY <1>1, <1>3 DEF Stored
  <2>2. IsRegistry(reg)
    BY <1>1, <1>3, RegisterType
  <2>3. /\ DOMAIN reg = DOMAIN d.tools
        /\ \A n \in DOMAIN reg : reg[n].since = d.tools[n].since
    BY <1>3 DEF Register
  <2> HIDE DEF e, reg
  <2>4. IsDict(e)
    BY <1>1, <2>1, <2>2, <2>3 DEF IsDict
  <2> QED
    BY <1>2, <2>1, <2>3, <2>4 DEF Changed, Size, e
<1>4. CASE name \notin DOMAIN d.tools /\ d.room > 0
  <2> DEFINE reg == Register(d.tools, name, manifest, d.used)
  <2>1. e = [tools |-> reg, used |-> d.used + 1, room |-> d.room - 1]
    BY <1>4 DEF Stored
  <2>2. IsRegistry(reg)
    BY <1>1, RegisterType
  <2>3. /\ DOMAIN reg = DOMAIN d.tools \cup {name}
        /\ \A n \in DOMAIN d.tools : reg[n].since = d.tools[n].since
        /\ reg[name].since = d.used
    BY <1>4 DEF Register
  <2> HIDE DEF e, reg
  <2>4. IsDict(e)
    BY <1>1, <1>2, <1>4, <2>1, <2>2, <2>3 DEF IsDict
  <2>5. Size(e) = Size(d) + 1
    BY <1>2, <1>4, <2>1, <2>3, FS_AddElement DEF Size
  <2> QED
    BY <1>2, <2>1, <2>3, <2>4, <2>5 DEF Changed, e
<1>5. CASE name \notin DOMAIN d.tools /\ ~(d.room > 0)
  <2> DEFINE close == Compacted(d.tools)
             reg == Register(close, name, manifest, Size(d))
  <2>1. e = [tools |-> reg, used |-> Size(d) + 1, room |-> FreshRoom]
    BY <1>5 DEF Stored
  <2>2. /\ IsRegistry(close) /\ DOMAIN close = DOMAIN d.tools
        /\ \A n \in DOMAIN close : /\ close[n].since <= d.tools[n].since
                                   /\ close[n].since < Size(d)
    BY <1>1, CompactedType DEF Size
  <2>3. IsRegistry(reg)
    BY <1>2, <2>2, RegisterType
  <2>4. /\ DOMAIN reg = DOMAIN close \cup {name}
        /\ \A n \in DOMAIN close : reg[n].since = close[n].since
        /\ reg[name].since = Size(d)
    BY <1>5, <2>2 DEF Register
  <2>5. \A n \in DOMAIN close : close[n].since \in Nat
    BY <2>2 DEF IsRegistry, Entry
  <2> HIDE DEF e, reg, close
  <2>6. IsDict(e)
    BY <1>2, <2>1, <2>2, <2>3, <2>4, <2>5, FreshRoomTyped DEF IsDict
  <2>7. Size(e) = Size(d) + 1
    BY <1>2, <1>5, <2>1, <2>2, <2>4, FS_AddElement DEF Size
  <2> QED
    BY <1>2, <1>5, <2>1, <2>2, <2>4, <2>6, <2>7 DEF Changed, e
<1> QED
  BY <1>3, <1>4, <1>5

LEMMA PoppedType ==
  ASSUME NEW d, IsDict(d), NEW name \in DOMAIN d.tools
  PROVE  Changed(d, Popped(d, name))
<1> DEFINE e == Popped(d, name)
           reg == Unregister(d.tools, name)
<1>1. /\ IsRegistry(d.tools) /\ d.used \in Nat /\ d.room \in Nat
      /\ \A n \in DOMAIN d.tools : d.tools[n].since < d.used
      /\ d = [tools |-> d.tools, used |-> d.used, room |-> d.room]
  BY DEF IsDict
<1>2. e = [tools |-> reg, used |-> d.used, room |-> d.room]
  BY <1>1 DEF Popped
<1>3. IsRegistry(reg)
  BY <1>1, UnregisterType
<1>4. /\ DOMAIN reg = DOMAIN d.tools \ {name}
      /\ \A n \in DOMAIN reg : reg[n] = d.tools[n]
  BY DEF Unregister
<1> HIDE DEF e, reg
<1>5. IsDict(e)
  BY <1>1, <1>2, <1>3, <1>4 DEF IsDict
<1>6. Size(e) = Size(d) - 1 /\ Size(d) \in Nat
  BY <1>2, <1>4, SizeType, FS_RemoveElement DEF Size
<1> QED
  BY <1>2, <1>4, <1>5, <1>6, SizeType DEF Changed, e

-----------------------------------------------------------------------------
(* Walks and catalogs.                                                     *)

(* What a walk has left behind it.                                         *)
Passed(w, d) == {n \in DOMAIN d.tools : d.tools[n].since < w.slot}

(* A turn of the loop takes one tool from those ahead to those behind.     *)
LEMMA WalkStep ==
  ASSUME NEW d, IsDict(d), NEW w \in Walk, NEW n, IsNext(w, d, n)
  PROVE  LET v == WalkOn(w, d, n)
         IN  /\ n \in DOMAIN d.tools /\ n \notin Passed(w, d)
             /\ \A m \in Passed(w, d) : d.tools[m].since < d.tools[n].since
             /\ v.slot = d.tools[n].since + 1 /\ v.slot > w.slot
             /\ v.size = w.size /\ v.left = w.left - 1
             /\ Passed(v, d) = Passed(w, d) \cup {n}
             /\ Ahead(v, d) = Ahead(w, d) \ {n}
<1> DEFINE v == WalkOn(w, d, n)
<1>1. \A m \in DOMAIN d.tools : d.tools[m].since \in Nat
  BY SizeType
<1>2. /\ n \in DOMAIN d.tools /\ d.tools[n].since >= w.slot
      /\ \A m \in DOMAIN d.tools :
           d.tools[m].since >= w.slot => d.tools[n].since <= d.tools[m].since
  BY DEF IsNext, Ahead
<1>3. w.slot \in Nat
  BY DEF Walk
<1>4. v.slot = d.tools[n].since + 1 /\ v.size = w.size /\ v.left = w.left - 1
  BY DEF Walk, WalkOn
<1>5. \A m \in DOMAIN d.tools : d.tools[m].since = d.tools[n].since => m = n
  BY <1>2 DEF IsDict, IsRegistry
<1> HIDE DEF v
<1>6. \A m \in DOMAIN d.tools :
        /\ (d.tools[m].since < v.slot) = (d.tools[m].since < w.slot \/ m = n)
        /\ (d.tools[m].since >= v.slot) = (d.tools[m].since >= w.slot /\ m # n)
  BY <1>1, <1>2, <1>3, <1>4, <1>5
<1>7. Passed(v, d) = Passed(w, d) \cup {n} /\ Ahead(v, d) = Ahead(w, d) \ {n}
  BY <1>2, <1>6 DEF Passed, Ahead
<1> QED
  BY <1>1, <1>2, <1>3, <1>4, <1>7 DEF Passed, v

(* What the catalog says once the tools of S, the earliest ones of reg,    *)
(* have been listed.                                                       *)
Among(reg, S, cap) == {n \in S : cap \in reg[n].manifest.caps}
LineOf(reg, S, cap, first) ==
  [describedBy |-> first,
   scopes |-> {reg[n].manifest.scope : n \in Among(reg, S, cap)},
   tool_count |-> Cardinality(Among(reg, S, cap))]
Earliest(reg, S, cap, first) ==
  /\ first \in Among(reg, S, cap)
  /\ \A m \in Among(reg, S, cap) : reg[first].since <= reg[m].since
IsCatalogOf(cat, reg, S) ==
  /\ DOMAIN cat = UNION {reg[n].manifest.caps : n \in S}
  /\ cat = [cap \in DOMAIN cat |-> cat[cap]]
  /\ \A cap \in DOMAIN cat :
       \E first \in S : Earliest(reg, S, cap, first)
                  /\ cat[cap] = LineOf(reg, S, cap, first)

LEMMA ListedExtends ==
  ASSUME NEW reg, IsRegistry(reg), NEW S \in SUBSET DOMAIN reg,
         NEW n \in DOMAIN reg, n \notin S,
         \A m \in S : reg[m].since < reg[n].since,
         NEW cat, IsCatalogOf(cat, reg, S)
  PROVE  IsCatalogOf(Listed(cat, n, reg[n].manifest), reg, S \cup {n})
<1> DEFINE T == S \cup {n}
           manifest == reg[n].manifest
           new == Listed(cat, n, manifest)
<1>1. DOMAIN new = DOMAIN cat \cup manifest.caps
  BY DEF Listed
<1>2. DOMAIN new = UNION {reg[m].manifest.caps : m \in T}
  BY <1>1 DEF IsCatalogOf
<1>3. new = [cap \in DOMAIN new |-> new[cap]]
  BY DEF Listed
<1>4. \A m \in DOMAIN reg : reg[m].since \in Nat
  BY DEF IsRegistry, Entry
<1>5. ASSUME NEW cap \in DOMAIN new, cap \notin manifest.caps
      PROVE  \E first \in T : Earliest(reg, T, cap, first)
                        /\ new[cap] = LineOf(reg, T, cap, first)
  <2>1. cap \in DOMAIN cat /\ new[cap] = cat[cap]
    BY <1>1, <1>5 DEF Listed
  <2>2. Among(reg, T, cap) = Among(reg, S, cap)
    BY <1>5 DEF Among
  <2>3. PICK first \in S : Earliest(reg, S, cap, first)
                           /\ cat[cap] = LineOf(reg, S, cap, first)
    BY <2>1 DEF IsCatalogOf
  <2>4. first \in T
    OBVIOUS
  <2> HIDE DEF T, new
  <2> QED
    BY <2>1, <2>2, <2>3, <2>4 DEF Earliest, LineOf
<1>6. ASSUME NEW cap \in DOMAIN new, cap \in manifest.caps, cap \notin DOMAIN cat
      PROVE  \E first \in T : Earliest(reg, T, cap, first)
                        /\ new[cap] = LineOf(reg, T, cap, first)
  <2>1. new[cap] = [describedBy |-> n, scopes |-> {manifest.scope},
                    tool_count |-> 1]
    BY <1>6 DEF Listed
  <2>2. Among(reg, T, cap) = {n}
    BY <1>6 DEF Among, IsCatalogOf
  <2>3. {reg[m].manifest.scope : m \in Among(reg, T, cap)} = {manifest.scope}
    BY <2>2
  <2>4. Cardinality(Among(reg, T, cap)) = 1
    BY <2>2, FS_Singleton
  <2>5. new[cap] = LineOf(reg, T, cap, n)
    BY <2>1, <2>3, <2>4 DEF LineOf
  <2>6. reg[n].since <= reg[n].since
    BY <1>4
  <2>7. Earliest(reg, T, cap, n)
    <3> HIDE DEF T
    <3> QED
      BY <2>2, <2>6 DEF Earliest
  <2> QED
    BY <2>5, <2>7
<1>7. ASSUME NEW cap \in DOMAIN new, cap \in manifest.caps, cap \in DOMAIN cat
      PROVE  \E first \in T : Earliest(reg, T, cap, first)
                        /\ new[cap] = LineOf(reg, T, cap, first)
  <2>1. PICK first \in S : Earliest(reg, S, cap, first)
                     /\ cat[cap] = LineOf(reg, S, cap, first)
    BY <1>7 DEF IsCatalogOf
  <2>2. Among(reg, T, cap) = Among(reg, S, cap) \cup {n}
        /\ n \notin Among(reg, S, cap)
    BY <1>7 DEF Among
  <2>3. IsFiniteSet(Among(reg, S, cap))
    BY RegistryFinite, FS_Subset DEF Among
  <2>4. Cardinality(Among(reg, T, cap)) = Cardinality(Among(reg, S, cap)) + 1
    BY <2>2, <2>3, FS_AddElement
  <2>5. {reg[m].manifest.scope : m \in Among(reg, T, cap)} =
        {reg[m].manifest.scope : m \in Among(reg, S, cap)} \cup {manifest.scope}
    BY <2>2
  <2>6. new[cap] =
          [describedBy |-> cat[cap].describedBy,
           scopes |-> cat[cap].scopes \cup {manifest.scope},
           tool_count |-> cat[cap].tool_count + 1]
    BY <1>7 DEF Listed
  <2>7. new[cap] =
          [describedBy |-> first,
           scopes |-> {reg[m].manifest.scope : m \in Among(reg, S, cap)}
                      \cup {manifest.scope},
           tool_count |-> Cardinality(Among(reg, S, cap)) + 1]
    BY <2>1, <2>6 DEF LineOf
  <2>8. new[cap] = LineOf(reg, T, cap, first)
    BY <2>4, <2>5, <2>7 DEF LineOf
  <2>9. Earliest(reg, T, cap, first)
    BY <1>4, <2>1, <2>2 DEF Earliest, Among
  <2> QED
    BY <2>8, <2>9
<1> HIDE DEF new, T
<1> QED
  BY <1>2, <1>3, <1>5, <1>6, <1>7 DEF IsCatalogOf, new, T

LEMMA WholeCatalog ==
  ASSUME NEW reg, IsRegistry(reg), NEW cat, IsCatalogOf(cat, reg, DOMAIN reg)
  PROVE  cat = CatalogOf(reg)
<1>1. \A cap : Among(reg, DOMAIN reg, cap) = Offers(reg, cap)
  BY DEF Among, Offers
<1>2. ASSUME NEW cap, NEW first, Earliest(reg, DOMAIN reg, cap, first)
      PROVE  first = CHOOSE n \in Offers(reg, cap) :
                       \A m \in Offers(reg, cap) : reg[n].since <= reg[m].since
  <2>1. \A m \in Offers(reg, cap) : m \in DOMAIN reg /\ reg[m].since \in Nat
    BY DEF Offers, IsRegistry, Entry
  <2>2. /\ first \in Offers(reg, cap)
        /\ \A m \in Offers(reg, cap) : reg[first].since <= reg[m].since
    BY <1>1, <1>2 DEF Earliest
  <2>3. ASSUME NEW n \in Offers(reg, cap),
               \A m \in Offers(reg, cap) : reg[n].since <= reg[m].since
        PROVE  n = first
    <3>1. reg[n].since = reg[first].since
      BY <2>1, <2>2, <2>3
    <3> QED
      BY <2>1, <2>2, <3>1 DEF IsRegistry
  <2> QED
    BY <2>2, <2>3
<1>3. DOMAIN cat = DOMAIN CatalogOf(reg)
  BY DEF IsCatalogOf, CatalogOf
<1>4. ASSUME NEW cap \in DOMAIN cat PROVE cat[cap] = CatalogOf(reg)[cap]
  <2>1. PICK first \in DOMAIN reg : Earliest(reg, DOMAIN reg, cap, first)
                     /\ cat[cap] = LineOf(reg, DOMAIN reg, cap, first)
    BY DEF IsCatalogOf
  <2>2. cap \in UNION {reg[n].manifest.caps : n \in DOMAIN reg}
    BY DEF IsCatalogOf
  <2> QED
    BY <1>1, <1>2, <2>1, <2>2 DEF CatalogOf, LineOf
<1> QED
  BY <1>3, <1>4 DEF IsCatalogOf, CatalogOf

LEMMA ListedType ==
  ASSUME NEW cat, DOMAIN cat \subseteq Caps, cat \in [DOMAIN cat -> Line],
         NEW n \in Tools, NEW manifest \in Manifest
  PROVE  LET new == Listed(cat, n, manifest)
         IN  DOMAIN new \subseteq Caps /\ new \in [DOMAIN new -> Line]
<1> DEFINE new == Listed(cat, n, manifest)
<1>1. manifest.caps \subseteq Caps /\ manifest.scope \in Scopes
  BY DEF Manifest
<1>2. DOMAIN new = DOMAIN cat \cup manifest.caps
  BY DEF Listed
<1>3. ASSUME NEW cap \in DOMAIN new PROVE new[cap] \in Line
  <2>1. CASE cap \notin manifest.caps
    BY <1>2, <2>1 DEF Listed
  <2>2. CASE cap \in manifest.caps /\ cap \in DOMAIN cat
    <3>1. new[cap] = [describedBy |-> cat[cap].describedBy,
                      scopes |-> cat[cap].scopes \cup {manifest.scope},
                      tool_count |-> cat[cap].tool_count + 1]
      BY <2>2 DEF Listed
    <3>2. cat[cap] \in Line
      BY <2>2
    <3> QED
      BY <1>1, <3>1, <3>2 DEF Line
  <2>3. CASE cap \in manifest.caps /\ cap \notin DOMAIN cat
    <3>1. new[cap] = [describedBy |-> n, scopes |-> {manifest.scope},
                      tool_count |-> 1]
      BY <2>3 DEF Listed
    <3> QED
      BY <1>1, <3>1 DEF Line
  <2> QED
    BY <2>1, <2>2, <2>3
<1> QED
  BY <1>1, <1>2, <1>3 DEF Listed

(* How often a listing names a tool.                                       *)
Times(l, n) == Cardinality({k \in DOMAIN l : l[k].tool = n})

LEMMA TimesAppend ==
  ASSUME NEW X, NEW l \in Seq(X), NEW x \in X, NEW n
  PROVE  /\ Times(l, n) \in Nat
         /\ Times(Append(l, x), n) = Times(l, n) + IF x.tool = n THEN 1 ELSE 0
<1> DEFINE K == {k \in DOMAIN l : l[k].tool = n}
           top == Len(l) + 1
           L == {k \in DOMAIN Append(l, x) : Append(l, x)[k].tool = n}
<1>1. DOMAIN l = 1..Len(l) /\ Len(l) \in Nat
  OBVIOUS
<1>2. IsFiniteSet(K) /\ Cardinality(K) \in Nat /\ top \notin K
  <2>1. IsFiniteSet(1..Len(l))
    BY <1>1, FS_Interval
  <2> QED
    BY <1>1, <2>1, FS_Subset, FS_CardinalityType
<1>3. /\ DOMAIN Append(l, x) = 1..Len(l) + 1
      /\ \A k \in 1..Len(l) : Append(l, x)[k] = l[k]
      /\ Append(l, x)[top] = x
  OBVIOUS
<1>4. L = IF x.tool = n THEN K \cup {top} ELSE K
  BY <1>1, <1>3
<1> HIDE DEF K, L
<1>5. Cardinality(L) = Cardinality(K) + IF x.tool = n THEN 1 ELSE 0
  <2>1. CASE x.tool = n
    BY <1>2, <1>4, <2>1, FS_AddElement
  <2>2. CASE x.tool # n
    BY <1>2, <1>4, <2>2
  <2> QED
    BY <2>1, <2>2
<1> QED
  BY <1>2, <1>5 DEF Times, K, L

LEMMA TimesEmpty == \A n : Times(<<>>, n) = 0
<1>1. \A n : {k \in DOMAIN <<>> : <<>>[k].tool = n} = {}
  OBVIOUS
<1> QED
  BY <1>1, FS_EmptySet DEF Times

-----------------------------------------------------------------------------
(* The inductive invariant.                                                *)

Using == dicts[using]

(* The history of the registry in use ends with what it holds now.         *)
PastInv == stage \in {"planning", "walking"} => Using.tools \in past

PlansInv == stage \in {"called", "planning"} => plans <= MAX_REPLANS

Stays(n) == \A reg \in past : n \in DOMAIN reg

(* Why a walk is faithful: the dict's size tells the insertions and        *)
(* removals apart; whatever stays has only moved down, so it is met once   *)
(* at most; and while nothing came or went, what is behind the walk has    *)
(* been listed and it expects just what is ahead.                          *)
WalkInv ==
  stage = "walking" =>
    /\ Size(Using) = walk.size + grew - shrank
    /\ \A n \in Tools : Stays(n) =>
         Times(listed, n) = 0 \/ (Times(listed, n) = 1 /\ n \in Passed(walk, Using))
    /\ grew = 0 /\ shrank = 0 =>
         /\ walk.left = Cardinality(Ahead(walk, Using))
         /\ \A n \in Passed(walk, Using) : Times(listed, n) >= 1
    /\ past = {Using.tools} =>
         IsCatalogOf(catalog, Using.tools, Passed(walk, Using))

(* While the loop of complete_json runs, it has attempts left, has seen    *)
(* invalid replies only, and is about to quote the last of them.           *)
AskingInv ==
  /\ outcome = "idle" => replies = <<>> /\ prompts = <<>>
  /\ outcome = "asking" =>
       /\ Len(replies) < budget
       /\ \A k \in 1..Len(replies) : replies[k] = "invalid"
       /\ quoted = IF Len(replies) = 0 THEN {} ELSE {Len(replies)}

JsonInv == JsonTypeOK /\ AskingInv /\ RepairDiscipline

ListInv == CatalogIsLive /\ ListingFaithful /\ OnlyResizingBreaksWalks

PlanInv ==
  PlanningTypeOK /\ PastInv /\ PlansInv /\ WalkInv /\ ListInv /\ JsonInv

LEMMA InitPlanInv == PlanningInit => PlanInv
<1> SUFFICES ASSUME PlanningInit PROVE PlanInv
  OBVIOUS
<1>1. DOMAIN dicts = Stores /\ \A s \in Stores : IsDict(dicts[s])
  BY InitialDictsTyped DEF PlanningInit
<1>2. JsonInv
  BY DEF PlanningInit, JsonIdle, JsonInv, JsonTypeOK, AskingInv, RepairDiscipline,
         Outcomes
<1>3. PlanningTypeOK
  <2>1. catalog \in [DOMAIN catalog -> Line] /\ DOMAIN catalog \subseteq Caps
    BY DEF PlanningInit, Nothing
  <2> QED
    BY <1>1, <1>2, <2>1, MaxEditsTyped
       DEF PlanningInit, PlanningTypeOK, Stores, Stages, MAX_REPLANS, Walk, JsonInv
<1>4. PastInv /\ PlansInv /\ WalkInv
  BY DEF PlanningInit, PastInv, PlansInv, WalkInv, MAX_REPLANS
<1>5. ListInv
  BY DEF PlanningInit, ListInv, CatalogIsLive, ListingFaithful,
         OnlyResizingBreaksWalks, CatalogMade
<1> QED
  BY <1>2, <1>3, <1>4, <1>5 DEF PlanInv

(* Every edit is a change of one registry as Changed describes it.         *)
LEMMA EditIsChange ==
  ASSUME PlanningTypeOK, EditRegistries
  PROVE  \E s \in Stores : \E d : Changed(dicts[s], d) /\ Edit(s, d)
<1>1. \A s \in Stores : IsDict(dicts[s])
  BY DEF PlanningTypeOK
<1>2. \A n \in Tools : Manifests[n] \subseteq Manifest
  BY ManifestsTyped
<1>3. PICK s \in Stores, n \in Tools :
        \/ \E m \in Manifests[n], replace \in BOOLEAN : RegisterIn(s, n, m, replace)
        \/ \E m \in Manifests[n] : RegisterLate(s, n, m)
        \/ UnregisterIn(s, n)
  BY DEF EditRegistries
<1>4. OrGlobal(s) \in Stores
  BY DEF OrGlobal, Stores
<1>5. CASE \E m \in Manifests[n], replace \in BOOLEAN : RegisterIn(s, n, m, replace)
  BY <1>1, <1>2, <1>5, StoredType DEF RegisterIn
<1>6. CASE \E m \in Manifests[n] : RegisterLate(s, n, m)
  BY <1>1, <1>2, <1>4, <1>6, StoredType DEF RegisterLate
<1>7. CASE UnregisterIn(s, n)
  BY <1>1, <1>7, PoppedType DEF UnregisterIn
<1> QED
  BY <1>3, <1>5, <1>6, <1>7

(* The repair loop.                                                        *)
LEMMA CallKeepsJsonInv ==
  ASSUME CallCompleteJson(0) PROVE JsonInv'
  BY MaxJsonAttemptsTyped
     DEF CallCompleteJson, BudgetFor, JsonInv, JsonTypeOK, AskingInv,
         RepairDiscipline, Outcomes

LEMMA AttemptKeepsJsonInv ==
  ASSUME JsonInv, NEW reply \in Replies, Attempt(reply)
  PROVE  JsonInv'
<1> DEFINE n == Len(replies)
<1>1. /\ outcome = "asking" /\ budget' = budget
      /\ prompts' = Append(prompts, quoted) /\ replies' = Append(replies, reply)
      /\ outcome' = AfterReply(reply, n + 1)
      /\ quoted' = IF outcome' = "asking" THEN {n + 1} ELSE quoted
  BY DEF Attempt
<1>2. /\ budget \in Int /\ quoted \subseteq Nat /\ prompts \in Seq(SUBSET Nat)
      /\ replies \in Seq(Replies)
  BY DEF JsonInv, JsonTypeOK
<1>3. /\ n \in Nat /\ n < budget /\ Len(prompts) = n
      /\ \A k \in 1..n : replies[k] = "invalid"
      /\ quoted = IF n = 0 THEN {} ELSE {n}
      /\ \A k \in 1..n : prompts[k] = IF k = 1 THEN {} ELSE {k - 1}
  <2>1. n \in Nat /\ n < budget /\ \A k \in 1..n : replies[k] = "invalid"
    BY <1>1, <1>2 DEF JsonInv, AskingInv
  <2>2. quoted = IF n = 0 THEN {} ELSE {n}
    BY <1>1 DEF JsonInv, AskingInv
  <2>3. Len(prompts) = n
    BY DEF JsonInv, RepairDiscipline
  <2>4. \A k \in 1..n : prompts[k] = IF k = 1 THEN {} ELSE {k - 1}
    BY DEF JsonInv, RepairDiscipline
  <2> QED
    BY <2>1, <2>2, <2>3, <2>4
<1>4. /\ reply = "valid" => outcome' = "valid"
      /\ reply = "transport" => outcome' = "LLMError"
      /\ reply = "other" => outcome' = "escaped"
      /\ reply = "invalid" =>
           outcome' = IF n + 1 < budget THEN "asking" ELSE "LLMError"
  BY <1>1 DEF AfterReply
<1>5. /\ Len(replies') = n + 1 /\ Len(prompts') = n + 1
      /\ replies'[n + 1] = reply /\ prompts'[n + 1] = quoted
      /\ \A k \in 1..n : replies'[k] = replies[k] /\ prompts'[k] = prompts[k]
  BY <1>1, <1>2, <1>3
<1>6. JsonTypeOK'
  <2>1. outcome' \in Outcomes
    BY <1>4 DEF Outcomes, Replies
  <2>2. quoted' \subseteq Nat
    BY <1>1, <1>2, <1>3
  <2> QED
    BY <1>1, <1>2, <2>1, <2>2 DEF JsonTypeOK
<1> HIDE DEF n
<1>7. AskingInv'
  <2>1. outcome' # "idle"
    BY <1>4 DEF Replies
  <2>2. outcome' = "asking" => reply = "invalid" /\ n + 1 < budget
    BY <1>4 DEF Replies
  <2>3. outcome' = "asking" =>
          \A k \in 1..n + 1 : replies'[k] = "invalid"
    BY <1>3, <1>5, <2>2
  <2> QED
    BY <1>1, <1>3, <1>5, <2>1, <2>2, <2>3 DEF AskingInv
<1>8. RepairDiscipline'
  <2>1. Len(prompts') = Len(replies') /\ Len(replies') <= budget'
    BY <1>1, <1>2, <1>3, <1>5
  <2>2. \A k \in 1..Len(replies') - 1 : replies'[k] = "invalid"
    BY <1>3, <1>5
  <2>3. \A k \in 1..Len(replies') : prompts'[k] = IF k = 1 THEN {} ELSE {k - 1}
    BY <1>3, <1>5
  <2>4. (outcome' = "valid") = (reply = "valid")
    BY <1>4 DEF Replies
  <2>5. outcome' = "LLMError" =>
          reply = "transport" \/ (reply = "invalid" /\ n + 1 = budget)
    BY <1>2, <1>3, <1>4 DEF Replies
  <2>6. Len(replies') = n + 1 /\ Len(replies') # 0
        /\ replies'[Len(replies')] = reply
    BY <1>3, <1>5
  <2>7. outcome' = "LLMError" =>
          reply = "transport" \/ (reply = "invalid" /\ Len(replies') = budget')
    BY <1>1, <2>5, <2>6
  <2> QED
    BY <2>1, <2>2, <2>3, <2>4, <2>6, <2>7 DEF RepairDiscipline
<1> QED
  BY <1>6, <1>7, <1>8 DEF JsonInv

LEMMA JsonInvStutters ==
  ASSUME JsonInv, UNCHANGED jsonVars PROVE JsonInv'
  BY DEF JsonInv, JsonTypeOK, AskingInv, RepairDiscipline, jsonVars

-----------------------------------------------------------------------------
(* One lemma for each kind of step.                                        *)

(* Each name listed so far had its manifest in some registry of the past.  *)
ListedTrue ==
  \A k \in DOMAIN listed : \E reg \in past :
    /\ listed[k].tool \in DOMAIN reg
    /\ reg[listed[k].tool].manifest = listed[k].manifest

(* While the walk is under way the listing's faithfulness comes from       *)
(* WalkInv and ListedTrue.                                                 *)
LEMMA WalkingIsFaithful ==
  stage = "walking" /\ WalkInv /\ ListedTrue => ListInv
<1> SUFFICES ASSUME stage = "walking", WalkInv, ListedTrue PROVE ListInv
  OBVIOUS
<1>1. ~CatalogMade
  BY DEF CatalogMade
<1>2. \A n \in Tools : Stays(n) => Times(listed, n) <= 1
  BY DEF WalkInv
<1>3. ListingFaithful
  BY <1>1, <1>2 DEF ListingFaithful, ListedTrue, Stays, TimesListed, Times
<1> QED
  BY <1>1, <1>3 DEF ListInv, CatalogIsLive, OnlyResizingBreaksWalks

LEMMA EditKeepsInv ==
  ASSUME PlanInv, NEW s \in Stores, NEW d, Changed(dicts[s], d), Edit(s, d)
  PROVE  PlanInv'
<1>1. /\ stage \notin {"raised", "gone"} /\ edits < MaxEdits
      /\ dicts' = [dicts EXCEPT ![s] = d] /\ edits' = edits + 1
      /\ UNCHANGED <<given, using, stage, plans, walk, catalog, listed>>
      /\ UNCHANGED jsonVars
  BY DEF Edit, PlannerOver, callVars, walkVars
<1>2. /\ IF s = using /\ stage \in {"planning", "walking"}
           THEN past' = past \cup {d.tools} ELSE past' = past
      /\ IF s = using /\ stage = "walking"
           THEN /\ grew' = grew + (IF Size(d) > Size(dicts[s]) THEN 1 ELSE 0)
                /\ shrank' = shrank + (IF Size(d) < Size(dicts[s]) THEN 1 ELSE 0)
           ELSE grew' = grew /\ shrank' = shrank
  BY DEF Edit
<1>3. /\ PlanningTypeOK /\ PastInv /\ PlansInv /\ WalkInv /\ ListInv /\ JsonInv
  BY DEF PlanInv
<1>4. /\ IsDict(d) /\ IsRegistry(d.tools)
      /\ \A r \in Stores : IsDict(dicts[r]) /\ IsDict(dicts'[r])
      /\ dicts'[s] = d /\ \A r \in Stores : r # s => dicts'[r] = dicts[r]
      /\ DOMAIN dicts' = Stores
  BY <1>1, <1>3 DEF Changed, IsDict, PlanningTypeOK
<1>5. JsonInv'
  BY <1>1, <1>3, JsonInvStutters
<1>6. PlanningTypeOK'
  <2>1. grew' \in Nat /\ shrank' \in Nat
    BY <1>2, <1>3 DEF PlanningTypeOK
  <2>2. \A reg \in past' : IsRegistry(reg)
    BY <1>2, <1>3, <1>4 DEF PlanningTypeOK
  <2>3. edits' \in 0..MaxEdits
    BY <1>1, <1>3, MaxEditsTyped DEF PlanningTypeOK
  <2> QED
    BY <1>1, <1>3, <1>4, <1>5, <2>1, <2>2, <2>3 DEF PlanningTypeOK, JsonInv
<1>7. PastInv' /\ PlansInv'
  <2>1. using \in Stores
    BY <1>3 DEF PlanningTypeOK
  <2> QED
    BY <1>1, <1>2, <1>3, <1>4, <2>1 DEF PastInv, PlansInv, Using
<1>8. CASE stage = "walking" /\ s = using
  <2>1. /\ past' = past \cup {d.tools} /\ Using' = d /\ Using.tools \in past
        /\ grew' = grew + (IF Size(d) > Size(Using) THEN 1 ELSE 0)
        /\ shrank' = shrank + (IF Size(d) < Size(Using) THEN 1 ELSE 0)
    BY <1>1, <1>2, <1>3, <1>4, <1>8 DEF Using, PastInv
  <2>2. /\ Size(Using) \in Nat /\ Size(d) \in Nat
        /\ \A n \in DOMAIN d.tools : d.tools[n].since \in Nat
        /\ \A n \in DOMAIN Using.tools : Using.tools[n].since \in Nat
    BY <1>4, <1>8, SizeType DEF Using
  <2>3. /\ \A n \in DOMAIN Using.tools \cap DOMAIN d.tools :
             d.tools[n].since <= Using.tools[n].since
        /\ Size(d) \in {Size(Using) - 1, Size(Using), Size(Using) + 1}
        /\ Size(d) = Size(Using) =>
             /\ DOMAIN d.tools = DOMAIN Using.tools
             /\ \A n \in DOMAIN Using.tools :
                  d.tools[n].since = Using.tools[n].since
    BY <1>8 DEF Changed, Using
  <2>4. grew \in Nat /\ shrank \in Nat /\ walk \in Walk
        /\ walk.slot \in Nat /\ walk.size \in Nat
    BY <1>3 DEF PlanningTypeOK, Walk
  <2>5. walk' = walk /\ listed' = listed /\ catalog' = catalog
        /\ stage' = "walking"
    BY <1>1, <1>8
  <2>6. Size(d) = walk.size + grew' - shrank'
    BY <1>3, <1>8, <2>1, <2>2, <2>3, <2>4 DEF WalkInv
  <2>7. ASSUME NEW n \in Tools, \A reg \in past' : n \in DOMAIN reg
        PROVE  Times(listed, n) = 0
               \/ (Times(listed, n) = 1 /\ n \in Passed(walk, d))
    <3>1. Stays(n) /\ n \in DOMAIN d.tools
      BY <2>1, <2>7 DEF Stays
    <3>2. n \in Passed(walk, Using) => n \in Passed(walk, d)
      BY <2>2, <2>3, <2>4, <3>1 DEF Passed
    <3> QED
      BY <1>3, <1>8, <3>1, <3>2 DEF WalkInv
  <2>8. ASSUME grew' = 0, shrank' = 0
        PROVE  /\ walk.left = Cardinality(Ahead(walk, d))
               /\ \A n \in Passed(walk, d) : Times(listed, n) >= 1
    <3>1. grew = 0 /\ shrank = 0 /\ Size(d) = Size(Using)
      BY <2>1, <2>2, <2>3, <2>4, <2>8
    <3>2. Ahead(walk, d) = Ahead(walk, Using) /\ Passed(walk, d) = Passed(walk, Using)
      BY <2>3, <3>1 DEF Ahead, Passed
    <3> QED
      BY <1>3, <1>8, <3>1, <3>2 DEF WalkInv
  <2>9. ASSUME past' = {d.tools}
        PROVE  IsCatalogOf(catalog, d.tools, Passed(walk, d))
    <3>1. d.tools = Using.tools /\ past = {Using.tools}
      BY <2>1, <2>9
    <3>2. Passed(walk, d) = Passed(walk, Using)
      BY <3>1 DEF Passed
    <3> QED
      BY <1>3, <1>8, <3>1, <3>2 DEF WalkInv
  <2>10. WalkInv'
    BY <2>1, <2>5, <2>6, <2>7, <2>8, <2>9 DEF WalkInv, Stays
  <2>11. ListedTrue'
    BY <1>3, <1>8, <2>1, <2>5 DEF ListInv, ListingFaithful, ListedTrue
  <2>12. ListInv'
    <3>1. (stage = "walking")'
      BY <2>5
    <3> QED
      BY <2>10, <2>11, <3>1, WalkingIsFaithful, PTL
  <2> QED
    BY <1>5, <1>6, <1>7, <2>10, <2>12 DEF PlanInv
<1>9. CASE ~(stage = "walking" /\ s = using)
  <2>1. grew' = grew /\ shrank' = shrank
    BY <1>2, <1>9
  <2>2. stage # "planning" => past' = past
    BY <1>2, <1>9
  <2>3. stage = "walking" => Using' = Using
    BY <1>1, <1>3, <1>4, <1>9 DEF Using, PlanningTypeOK
  <2>4. WalkInv'
    BY <1>1, <1>3, <2>1, <2>2, <2>3 DEF WalkInv, Stays
  <2>5. ListInv'
    BY <1>1, <1>3, <2>1, <2>2
       DEF ListInv, CatalogIsLive, ListingFaithful, OnlyResizingBreaksWalks,
           CatalogMade, TimesListed, jsonVars
  <2> QED
    BY <1>5, <1>6, <1>7, <2>4, <2>5 DEF PlanInv
<1> QED
  BY <1>8, <1>9

LEMMA BeginCatalogKeepsInv ==
  ASSUME PlanInv, BeginCatalog PROVE PlanInv'
<1>1. /\ stage = "planning" /\ stage' = "walking" /\ plans' = plans + 1
      /\ walk' = BeginWalk(Using) /\ catalog' = Nothing /\ listed' = <<>>
      /\ grew' = 0 /\ shrank' = 0
      /\ UNCHANGED <<given, using, dicts, edits, past, jsonVars>>
  BY DEF BeginCatalog, Using
<1>2. PlanningTypeOK /\ PastInv /\ PlansInv /\ JsonInv
  BY DEF PlanInv
<1>3. IsDict(Using) /\ Using' = Using /\ Using.tools \in past
  BY <1>1, <1>2 DEF Using, PlanningTypeOK, PastInv
<1>4. /\ Size(Using) \in Nat
      /\ \A n \in DOMAIN Using.tools : Using.tools[n].since \in Nat
  BY <1>3, SizeType
<1>5. walk' = [slot |-> 0, size |-> Size(Using), left |-> Size(Using)]
  BY <1>1 DEF BeginWalk
<1>6. Passed(walk', Using) = {} /\ Ahead(walk', Using) = DOMAIN Using.tools
  BY <1>4, <1>5 DEF Passed, Ahead
<1>7. JsonInv'
  BY <1>1, <1>2, JsonInvStutters
<1>8. PlanningTypeOK'
  <2>1. walk' \in Walk
    BY <1>4, <1>5 DEF Walk
  <2>2. DOMAIN catalog' \subseteq Caps /\ catalog' \in [DOMAIN catalog' -> Line]
    BY <1>1 DEF Nothing
  <2>3. plans' \in 0..MAX_REPLANS + 1
    BY <1>1, <1>2 DEF PlanningTypeOK, PlansInv, MAX_REPLANS
  <2> QED
    BY <1>1, <1>2, <1>7, <2>1, <2>2, <2>3 DEF PlanningTypeOK, Stages, JsonInv
<1>9. PastInv' /\ PlansInv'
  BY <1>1, <1>2, <1>3 DEF PastInv, PlansInv
<1>10. WalkInv'
  <2>1. Size(Using) = walk'.size + grew' - shrank'
    BY <1>1, <1>4, <1>5
  <2>2. \A n \in Tools : Times(listed', n) = 0
    BY <1>1, TimesEmpty
  <2>3. walk'.left = Cardinality(Ahead(walk', Using))
    BY <1>5, <1>6 DEF Size
  <2>4. IsCatalogOf(catalog', Using.tools, {})
    BY <1>1 DEF IsCatalogOf, Nothing
  <2> QED
    BY <1>3, <1>6, <2>1, <2>2, <2>3, <2>4 DEF WalkInv
<1>11. ListInv'
  <2>1. ListedTrue'
    BY <1>1 DEF ListedTrue
  <2>2. (stage = "walking")'
    BY <1>1
  <2> QED
    BY <1>10, <2>1, <2>2, WalkingIsFaithful, PTL
<1> QED
  BY <1>7, <1>8, <1>9, <1>10, <1>11 DEF PlanInv

LEMMA ListToolKeepsInv ==
  ASSUME PlanInv, NEW n \in Tools, ListTool(n) PROVE PlanInv'
<1> DEFINE d == Using
           manifest == d.tools[n].manifest
           entry == [tool |-> n, manifest |-> manifest]
<1>1. /\ stage = "walking" /\ ~WalkBreaks(walk, d) /\ IsNext(walk, d, n)
      /\ walk' = WalkOn(walk, d, n) /\ catalog' = Listed(catalog, n, manifest)
      /\ listed' = Append(listed, entry)
      /\ UNCHANGED <<callVars, dictVars, jsonVars>>
  BY DEF ListTool, Using
<1>2. PlanningTypeOK /\ PastInv /\ PlansInv /\ WalkInv /\ ListInv /\ JsonInv
  BY DEF PlanInv
<1>3. /\ IsDict(d) /\ IsRegistry(d.tools) /\ Using' = d /\ d.tools \in past
      /\ past' = past /\ stage' = "walking" /\ grew' = grew /\ shrank' = shrank
  BY <1>1, <1>2 DEF Using, PlanningTypeOK, PastInv, IsDict, callVars, dictVars
<1>4. /\ walk \in Walk /\ walk.left \in Nat /\ walk.size \in Nat
      /\ walk.slot \in Nat /\ listed \in Seq([tool : Tools, manifest : Manifest])
  BY <1>2 DEF PlanningTypeOK, Walk
<1>5. /\ n \in DOMAIN d.tools /\ n \notin Passed(walk, d)
      /\ \A m \in Passed(walk, d) : d.tools[m].since < d.tools[n].since
      /\ walk'.slot = d.tools[n].since + 1
      /\ walk'.size = walk.size /\ walk'.left = walk.left - 1
      /\ Passed(walk', d) = Passed(walk, d) \cup {n}
      /\ Ahead(walk', d) = Ahead(walk, d) \ {n}
  BY <1>1, <1>3, <1>4, WalkStep
<1>6. d.tools[n].since \in Nat /\ manifest \in Manifest
  BY <1>3, <1>5 DEF IsRegistry, Entry
<1>7. n \in Ahead(walk, d) /\ walk.left # 0
  BY <1>1 DEF IsNext, WalkBreaks
<1>8. entry \in [tool : Tools, manifest : Manifest]
  BY <1>6
<1> HIDE DEF d, manifest
<1>9. JsonInv'
  BY <1>1, <1>2, JsonInvStutters
<1>10. PlanningTypeOK'
  <2>1. walk' \in Walk
    <3>1. walk' = [slot |-> walk'.slot, size |-> walk'.size, left |-> walk'.left]
      BY <1>1, <1>4 DEF WalkOn, Walk
    <3>2. walk'.slot \in Nat /\ walk'.size \in Nat /\ walk'.left \in Nat
      BY <1>4, <1>5, <1>6, <1>7
    <3> QED
      BY <3>1, <3>2 DEF Walk
  <2>2. DOMAIN catalog' \subseteq Caps /\ catalog' \in [DOMAIN catalog' -> Line]
    BY <1>1, <1>2, <1>6, ListedType DEF PlanningTypeOK
  <2>3. listed' \in Seq([tool : Tools, manifest : Manifest])
    BY <1>1, <1>4, <1>8
  <2> QED
    BY <1>1, <1>2, <1>9, <2>1, <2>2, <2>3
       DEF PlanningTypeOK, JsonInv, callVars, dictVars
<1>11. PastInv' /\ PlansInv'
  BY <1>1, <1>2, <1>3 DEF PastInv, PlansInv, callVars, d
<1>12. WalkInv'
  <2>1. Size(d) = walk'.size + grew' - shrank'
    BY <1>1, <1>2, <1>3, <1>5 DEF WalkInv, d
  <2>2. ASSUME NEW m
        PROVE  /\ Times(listed, m) \in Nat
               /\ Times(listed', m) = Times(listed, m) + IF m = n THEN 1 ELSE 0
    <3>1. entry.tool = n
      OBVIOUS
    <3> HIDE DEF entry
    <3>2. /\ Times(listed, m) \in Nat
          /\ Times(Append(listed, entry), m) =
               Times(listed, m) + IF entry.tool = m THEN 1 ELSE 0
      BY <1>4, <1>8, TimesAppend
    <3> QED
      BY <1>1, <3>1, <3>2
  <2>3. ASSUME NEW m \in Tools, Stays(m)
        PROVE  Times(listed', m) = 0
               \/ (Times(listed', m) = 1 /\ m \in Passed(walk', d))
    <3>1. Times(listed, m) = 0 \/ (Times(listed, m) = 1 /\ m \in Passed(walk, d))
      BY <1>1, <1>2, <2>3 DEF WalkInv, d
    <3> QED
      BY <1>5, <2>2, <3>1
  <2>4. ASSUME grew = 0, shrank = 0
        PROVE  /\ walk'.left = Cardinality(Ahead(walk', d))
               /\ \A m \in Passed(walk', d) : Times(listed', m) >= 1
    <3>1. /\ walk.left = Cardinality(Ahead(walk, d))
          /\ \A m \in Passed(walk, d) : Times(listed, m) >= 1
      BY <1>1, <1>2, <2>4 DEF WalkInv, d
    <3>2. IsFiniteSet(Ahead(walk, d))
      BY <1>3, RegistryFinite, FS_Subset DEF Ahead
    <3>3. Cardinality(Ahead(walk, d) \ {n}) = Cardinality(Ahead(walk, d)) - 1
      BY <1>7, <3>2, FS_RemoveElement
    <3> QED
      BY <1>5, <2>2, <3>1, <3>3
  <2>5. ASSUME past = {d.tools}
        PROVE  IsCatalogOf(catalog', d.tools, Passed(walk', d))
    <3>1. IsCatalogOf(catalog, d.tools, Passed(walk, d))
      BY <1>1, <1>2, <2>5 DEF WalkInv, d
    <3>2. Passed(walk, d) \in SUBSET DOMAIN d.tools
      BY DEF Passed
    <3>3. IsCatalogOf(Listed(catalog, n, d.tools[n].manifest), d.tools,
                      Passed(walk, d) \cup {n})
      BY <1>3, <1>5, <3>1, <3>2, ListedExtends
    <3> QED
      BY <1>1, <1>5, <3>3 DEF manifest
  <2>6. \A m : Stays(m)' = Stays(m)
    BY <1>3 DEF Stays
  <2> QED
    BY <1>3, <2>1, <2>3, <2>4, <2>5, <2>6 DEF WalkInv, Stays
<1>13. ListInv'
  <2>1. ListedTrue
    BY <1>1, <1>2 DEF ListInv, ListingFaithful, ListedTrue
  <2>2. ASSUME NEW k \in DOMAIN listed'
        PROVE  \E reg \in past' : /\ listed'[k].tool \in DOMAIN reg
                                  /\ reg[listed'[k].tool].manifest = listed'[k].manifest
    <3>1. CASE k \in DOMAIN listed
      BY <1>1, <1>3, <1>4, <2>1, <3>1 DEF ListedTrue
    <3>2. CASE k \notin DOMAIN listed
      <4>1. listed'[k] = entry
        BY <1>1, <1>4, <3>2
      <4> QED
        BY <1>3, <1>5, <4>1 DEF manifest
    <3> QED
      BY <3>1, <3>2
  <2>3. ListedTrue'
    BY <2>2 DEF ListedTrue
  <2>4. (stage = "walking")'
    BY <1>3
  <2> QED
    BY <1>12, <2>3, <2>4, WalkingIsFaithful, PTL
<1> QED
  BY <1>9, <1>10, <1>11, <1>12, <1>13 DEF PlanInv

LEMMA CatalogBreaksKeepsInv ==
  ASSUME PlanInv, CatalogBreaks PROVE PlanInv'
<1>1. /\ stage = "walking" /\ WalkBreaks(walk, Using) /\ stage' = "raised"
      /\ UNCHANGED <<given, using, plans, walkVars, dictVars, jsonVars>>
  BY DEF CatalogBreaks, Using
<1>2. PlanningTypeOK /\ WalkInv /\ JsonInv
  BY DEF PlanInv
<1>3. JsonInv'
  BY <1>1, <1>2, JsonInvStutters
<1>4. PlanningTypeOK'
  BY <1>1, <1>2, <1>3 DEF PlanningTypeOK, JsonInv, Stages, walkVars, dictVars
<1>5. grew + shrank > 0
  <2>1. grew \in Nat /\ shrank \in Nat /\ walk.size \in Nat /\ IsDict(Using)
    BY <1>2 DEF PlanningTypeOK, Walk, Using
  <2>2. SUFFICES ASSUME grew = 0, shrank = 0 PROVE FALSE
    BY <2>1
  <2>3. Size(Using) = walk.size /\ walk.left = Cardinality(Ahead(walk, Using))
    BY <1>1, <1>2, <2>1, <2>2 DEF WalkInv
  <2>4. IsFiniteSet(Ahead(walk, Using))
    BY <2>1, SizeType, FS_Subset DEF Ahead
  <2> QED
    BY <1>1, <2>3, <2>4, FS_EmptySet DEF WalkBreaks
<1>6. PastInv' /\ PlansInv' /\ WalkInv'
  BY <1>1 DEF PastInv, PlansInv, WalkInv
<1>7. ListInv'
  BY <1>1, <1>5
     DEF ListInv, CatalogIsLive, ListingFaithful, OnlyResizingBreaksWalks,
         CatalogMade, dictVars
<1> QED
  BY <1>3, <1>4, <1>6, <1>7 DEF PlanInv

LEMMA CatalogDoneKeepsInv ==
  ASSUME PlanInv, CatalogDone PROVE PlanInv'
<1>1. /\ stage = "walking" /\ WalkEnds(walk, Using) /\ stage' = "asking"
      /\ CallCompleteJson(0)
      /\ UNCHANGED <<given, using, plans, walkVars, dictVars>>
  BY DEF CatalogDone, Using
<1>2. PlanningTypeOK /\ PastInv /\ WalkInv /\ ListInv
  BY DEF PlanInv
<1>3. JsonInv'
  BY <1>1, CallKeepsJsonInv
<1>4. PlanningTypeOK'
  BY <1>1, <1>2, <1>3 DEF PlanningTypeOK, JsonInv, Stages, walkVars, dictVars
<1>5. /\ IsDict(Using) /\ IsRegistry(Using.tools) /\ Using.tools \in past
      /\ walk.slot \in Nat /\ walk.size \in Nat /\ grew \in Nat /\ shrank \in Nat
      /\ \A n \in DOMAIN Using.tools : Using.tools[n].since \in Nat
  <2>1. IsDict(Using) /\ Using.tools \in past
    BY <1>1, <1>2 DEF PlanningTypeOK, PastInv, Using
  <2> QED
    BY <1>2, <2>1, SizeType DEF PlanningTypeOK, Walk, IsDict
<1>6. /\ UNCHANGED <<walk, catalog, listed, past, grew, shrank>>
      /\ outcome' # "idle" /\ ~(stage' = "raised")
  BY <1>1 DEF walkVars, dictVars, CallCompleteJson
<1>7. grew = shrank
  BY <1>1, <1>2, <1>5 DEF WalkInv, WalkEnds
<1>8. Passed(walk, Using) = DOMAIN Using.tools
  BY <1>1, <1>5 DEF WalkEnds, Ahead, Passed
<1>9. CatalogIsLive'
  <2>1. ASSUME NEW reg \in past, past = {reg} PROVE catalog = CatalogOf(reg)
    <3>1. reg = Using.tools
      BY <1>5, <2>1
    <3>2. IsCatalogOf(catalog, reg, DOMAIN reg)
      BY <1>1, <1>2, <1>8, <2>1, <3>1 DEF WalkInv
    <3> QED
      BY <1>5, <3>1, <3>2, WholeCatalog
  <2> QED
    BY <1>6, <2>1 DEF CatalogIsLive
<1>10. ListingFaithful'
  <2>1. ASSUME NEW n \in Tools, \A reg \in past : n \in DOMAIN reg
        PROVE  /\ Times(listed, n) <= 1
               /\ grew = 0 \/ shrank = 0 => Times(listed, n) = 1
    <3>1. Stays(n) /\ n \in Passed(walk, Using)
      BY <1>5, <1>8, <2>1 DEF Stays
    <3> QED
      BY <1>1, <1>2, <1>7, <3>1 DEF WalkInv
  <2>2. ListedTrue
    BY <1>1, <1>2 DEF ListInv, ListingFaithful, ListedTrue
  <2> QED
    BY <1>6, <2>1, <2>2 DEF ListingFaithful, ListedTrue, TimesListed, Times
<1>11. OnlyResizingBreaksWalks'
  BY <1>6, <1>7 DEF OnlyResizingBreaksWalks
<1>12. PastInv' /\ PlansInv' /\ WalkInv'
  BY <1>1 DEF PastInv, PlansInv, WalkInv
<1> QED
  BY <1>3, <1>4, <1>9, <1>10, <1>11, <1>12 DEF PlanInv, ListInv

LEMMA AskModelKeepsInv ==
  ASSUME PlanInv, NEW reply \in Replies, AskModel(reply) PROVE PlanInv'
<1>1. /\ stage = "asking" /\ Attempt(reply)
      /\ stage' = CASE outcome' = "asking" -> "asking"
                    [] outcome' = "valid" -> "planned"
                    [] OTHER -> "raised"
      /\ UNCHANGED <<given, using, plans, walkVars, dictVars>>
  BY DEF AskModel
<1>2. PlanningTypeOK /\ ListInv /\ JsonInv
  BY DEF PlanInv
<1>3. JsonInv'
  BY <1>1, <1>2, AttemptKeepsJsonInv
<1>4. /\ stage' \in {"asking", "planned", "raised"}
      /\ stage' = "raised" => outcome' \notin {"idle", "valid"}
  <2>1. outcome' # "idle"
    BY <1>1 DEF Attempt, AfterReply, Replies
  <2> QED
    BY <1>1, <2>1
<1>5. PlanningTypeOK'
  BY <1>1, <1>2, <1>3, <1>4
     DEF PlanningTypeOK, JsonInv, Stages, walkVars, dictVars
<1>6. PastInv' /\ PlansInv' /\ WalkInv'
  BY <1>4 DEF PastInv, PlansInv, WalkInv
<1>7. ListInv'
  BY <1>1, <1>2, <1>4
     DEF ListInv, CatalogIsLive, ListingFaithful, OnlyResizingBreaksWalks,
         CatalogMade, TimesListed, walkVars, dictVars
<1> QED
  BY <1>3, <1>5, <1>6, <1>7 DEF PlanInv

(* Between walks: the planner is entered, or it is left for good.          *)
LEMMA BetweenWalksKeepsInv ==
  ASSUME PlanInv, EnterRun \/ Replan \/ GoOn PROVE PlanInv'
<1>1. /\ UNCHANGED <<plans, walkVars, dicts, edits, grew, shrank, jsonVars>>
      /\ given' = given
  BY DEF EnterRun, Replan, GoOn, dictVars
<1>2. /\ using' \in Stores
      /\ \/ stage' = "planning" /\ plans <= MAX_REPLANS /\ past' = {Using'.tools}
         \/ stage' = "gone" /\ past' = past
  <2>1. CASE EnterRun
    <3>1. plans <= MAX_REPLANS
      BY <2>1 DEF PlanInv, PlansInv, EnterRun
    <3> QED
      BY <2>1, <3>1 DEF EnterRun, OrGlobal, Stores, Using
  <2>2. CASE Replan
    <3>1. plans <= MAX_REPLANS
      BY <2>2 DEF Replan
    <3> QED
      BY <2>2, <3>1 DEF Replan, PlanInv, PlanningTypeOK, Using
  <2>3. CASE GoOn
    BY <2>3 DEF GoOn, PlanInv, PlanningTypeOK, dictVars
  <2> QED
    BY <2>1, <2>2, <2>3
<1>3. PlanningTypeOK /\ JsonInv
  BY DEF PlanInv
<1>4. JsonInv'
  BY <1>1, <1>3, JsonInvStutters
<1>5. PlanningTypeOK'
  <2>1. \A reg \in past' : IsRegistry(reg)
    BY <1>1, <1>2, <1>3 DEF PlanningTypeOK, Using, IsDict
  <2> QED
    BY <1>1, <1>2, <1>3, <1>4, <2>1
       DEF PlanningTypeOK, JsonInv, Stages, walkVars
<1>6. PastInv' /\ PlansInv' /\ WalkInv'
  BY <1>1, <1>2 DEF PastInv, PlansInv, WalkInv
<1>7. ListInv'
  BY <1>2 DEF ListInv, CatalogIsLive, ListingFaithful, OnlyResizingBreaksWalks,
              CatalogMade
<1> QED
  BY <1>4, <1>5, <1>6, <1>7 DEF PlanInv

LEMMA NextKeepsPlanInv == PlanInv /\ [PlanningNext]_pvars => PlanInv'
<1> SUFFICES ASSUME PlanInv, [PlanningNext]_pvars PROVE PlanInv'
  OBVIOUS
<1>1. CASE EditRegistries
  BY <1>1, EditIsChange, EditKeepsInv DEF PlanInv
<1>2. CASE EnterRun \/ Replan \/ GoOn
  BY <1>2, BetweenWalksKeepsInv
<1>3. CASE BeginCatalog
  BY <1>3, BeginCatalogKeepsInv
<1>4. CASE \E n \in Tools : ListTool(n)
  BY <1>4, ListToolKeepsInv
<1>5. CASE CatalogBreaks
  BY <1>5, CatalogBreaksKeepsInv
<1>6. CASE CatalogDone
  BY <1>6, CatalogDoneKeepsInv
<1>7. CASE \E reply \in Replies : AskModel(reply)
  BY <1>7, AskModelKeepsInv
<1>8. CASE UNCHANGED pvars
  <2>1. JsonInv'
    BY <1>8, JsonInvStutters DEF pvars, PlanInv
  <2> QED
    BY <1>8, <2>1
       DEF pvars, callVars, walkVars, dictVars, jsonVars, PlanInv, PlanningTypeOK,
           PastInv, PlansInv, WalkInv, ListInv, CatalogIsLive, ListingFaithful,
           OnlyResizingBreaksWalks, CatalogMade, TimesListed, Using, Stays,
           JsonTypeOK
<1> QED
  BY <1>1, <1>2, <1>3, <1>4, <1>5, <1>6, <1>7, <1>8
     DEF PlanningNext, PlannerStep, Rest

LEMMA PlanInvHolds == PlanningSpec => []PlanInv
  BY InitPlanInv, NextKeepsPlanInv, PTL DEF PlanningSpec

-----------------------------------------------------------------------------
(* The results.                                                            *)

(* The planner's variables keep their types, whatever registries callers   *)
(* make of the dicts: never more plans than the graph allows, and a walk   *)
(* that never expects fewer than no entries.                               *)
THEOREM PlannerTyped == PlanningSpec => []PlanningTypeOK
  BY PlanInvHolds, PTL DEF PlanInv

(* capability_catalog, if nobody changes the registry meanwhile, returns   *)
(* the registry's catalog, for every registry and every layout of its dict.*)
THEOREM CatalogsAreLive == PlanningSpec => []CatalogIsLive
  BY PlanInvHolds, PTL DEF PlanInv, ListInv

(* Whatever is registered, replaced or removed during the walk, it lists   *)
(* no tool that was there all along twice, and leaves one out only if      *)
(* there was both an insertion and a removal.                              *)
THEOREM ListingsAreFaithful == PlanningSpec => []ListingFaithful
  BY PlanInvHolds, PTL DEF PlanInv, ListInv

(* Only an insertion or a removal makes the walk raise, and none that ends *)
(* has seen more of one than of the other.                                 *)
THEOREM ReplacingNeverBreaks == PlanningSpec => []OnlyResizingBreaksWalks
  BY PlanInvHolds, PTL DEF PlanInv, ListInv

(* complete_json keeps the discipline of its loop for every budget.        *)
THEOREM RepairDisciplined == PlanningSpec => []RepairDiscipline
  BY PlanInvHolds, PTL DEF PlanInv, JsonInv

-----------------------------------------------------------------------------
(* A registry of one's own.                                                *)

(* The registry a caller passes holds a tool when run_orchestrator looks.  *)
FilledWhenCalled == stage = "called" => Size(dicts["private"]) > 0

OwnInv ==
  /\ stage = "called" => listed = <<>>
  /\ given = "private" /\ stage # "called" => using = "private"

LEMMA StepOwnInv ==
  ASSUME OwnInv, FilledWhenCalled, [PlanningNext]_pvars
  PROVE  OwnInv'
<1>1. CASE EnterRun
  BY <1>1 DEF EnterRun, OrGlobal, walkVars, FilledWhenCalled, OwnInv
<1>2. CASE BeginCatalog \/ Replan \/ GoOn \/ CatalogBreaks \/ CatalogDone
  BY <1>2 DEF BeginCatalog, Replan, GoOn, CatalogBreaks, CatalogDone, walkVars,
              OwnInv
<1>3. CASE \E n \in Tools : ListTool(n)
  BY <1>3 DEF ListTool, callVars, OwnInv
<1>4. ASSUME NEW reply \in Replies, AskModel(reply)
      PROVE  OwnInv'
  <2>1. stage # "called" /\ stage' # "called" /\ UNCHANGED <<given, using>>
    BY <1>4 DEF AskModel
  <2> QED
    BY <2>1 DEF OwnInv
<1>5. CASE EditRegistries \/ UNCHANGED pvars
  BY <1>5 DEF EditRegistries, RegisterIn, RegisterLate, UnregisterIn, Edit, pvars,
              callVars, walkVars, OwnInv
<1> QED
  BY <1>1, <1>2, <1>3, <1>4, <1>5 DEF PlanningNext, PlannerStep, Rest

(* A caller that passes a registry with a tool in it gets every plan of    *)
(* the run from that registry, the replan's too, even if it has become     *)
(* empty by then: only the first look tests it (run_orchestrator).         *)
THEOREM FilledRegistriesAreIsolated ==
  PlanningSpec /\ []FilledWhenCalled => []IsolatedRegistry
<1>1. PlanningInit => OwnInv
  BY DEF PlanningInit, OwnInv
<1>2. OwnInv => IsolatedRegistry
  BY DEF OwnInv, IsolatedRegistry
<1> QED
  BY <1>1, <1>2, StepOwnInv, PTL DEF PlanningSpec
=============================================================================
