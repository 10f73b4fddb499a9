--------------------------- MODULE Plugins_proofs ---------------------------
(***************************************************************************)
(* Proofs about Plugins, for any plugins, definitions, --load lists and    *)
(* any number of Applications in the process.                              *)
(***************************************************************************)
EXTENDS Plugins, TLAPS

USE PluginsAssumption

(***************************************************************************)
(* Tables                                                                  *)
(***************************************************************************)

LEMMA Owned ==
    ASSUME NEW o \in Owners
    PROVE  /\ OwnDefinitions(o) \subseteq Entries(Locations)
           /\ OwnParameters(o) \subseteq Entries(Names)
           /\ \A e \in OwnDefinitions(o) \union OwnParameters(o) : e.owner = o
           /\ \A e, f \in OwnDefinitions(o) : e.at = f.at => e = f
BY DEF Owners, OwnDefinitions, OwnParameters, Entries

LEMMA HostIsOwner == Host \in Owners /\ Libraries \subseteq Owners /\ Host \notin Libraries
BY DEF Owners

(* What is added is new; what was there stays.                             *)
LEMMA Emplaced ==
    ASSUME NEW reg, NEW new
    PROVE  /\ reg \subseteq TryEmplace(reg, new)
           /\ TryEmplace(reg, new) \subseteq reg \union new
           /\ (\A e, f \in reg : e.at = f.at => e = f)
              /\ (\A e, f \in new : e.at = f.at => e = f)
              => \A e, f \in TryEmplace(reg, new) : e.at = f.at => e = f
BY DEF TryEmplace

LEMMA Assigned == ASSUME NEW map, NEW new PROVE Assign(map, new) \subseteq map \union new
BY DEF Assign

(* What a walk meets: the static entries, the host's own, the plugins'.    *)
LEMMA WalkIs ==
    ASSUME plugins \in Seq(Libraries)
    PROVE  /\ DOMAIN Walk = 1..(Len(plugins) + 2)
           /\ Walk[1] = staticRegistry
           /\ Walk[2] = registry[Host]
           /\ \A n \in 1..Len(plugins) : Walk[n + 2] = registry[plugins[n]]
<1> DEFINE P == [n \in 1..Len(plugins) |-> registry[plugins[n]]]
           R == {staticRegistry, registry[Host]} \union {registry[plugins[n]] : n \in 1..Len(plugins)}
<1>1. Len(plugins) \in Nat
      OBVIOUS
<1>2. P \in Seq(R) /\ Len(P) = Len(plugins)
  <2>1. P \in [1..Len(plugins) -> R]
        OBVIOUS
  <2> QED BY <1>1, <2>1
<1>3. << staticRegistry, registry[Host] >> \in Seq(R)
      OBVIOUS
<1>4. Walk = << staticRegistry, registry[Host] >> \o P
      BY DEF Walk
<1>5. \A n \in 1..Len(plugins) : P[n] = registry[plugins[n]]
      OBVIOUS
<1> HIDE DEF P, R
<1> QED BY <1>1, <1>2, <1>3, <1>4, <1>5

LEMMA VisibleIs ==
    ASSUME plugins \in Seq(Libraries)
    PROVE  Visible = staticRegistry \union registry[Host]
                     \union UNION {registry[l] : l \in ToSet(plugins)}
<1>1. \A e : e \in Visible <=> \E n \in DOMAIN Walk : e \in Walk[n]
      BY DEF Visible, ToSet
<1>2. \A e : (\E n \in 1..Len(plugins) : e \in registry[plugins[n]])
             <=> e \in UNION {registry[l] : l \in ToSet(plugins)}
      BY DEF ToSet
<1>3. ASSUME NEW e PROVE
        (\E n \in DOMAIN Walk : e \in Walk[n])
        <=> e \in staticRegistry \/ e \in registry[Host]
            \/ \E n \in 1..Len(plugins) : e \in registry[plugins[n]]
  <2>1. ASSUME NEW n \in DOMAIN Walk, e \in Walk[n]
        PROVE  e \in staticRegistry \/ e \in registry[Host]
               \/ \E m \in 1..Len(plugins) : e \in registry[plugins[m]]
    <3>1. n \in 1..(Len(plugins) + 2) /\ Len(plugins) \in Nat
          BY WalkIs
    <3>2. CASE n = 1
          BY <2>1, <3>2, WalkIs
    <3>3. CASE n = 2
          BY <2>1, <3>3, WalkIs
    <3>4. CASE n # 1 /\ n # 2
      <4>1. n - 2 \in 1..Len(plugins) /\ n = (n - 2) + 2
            BY <3>1, <3>4
      <4>2. e \in registry[plugins[n - 2]]
            BY <2>1, <4>1, WalkIs
      <4> QED BY <4>1, <4>2
    <3> QED BY <3>2, <3>3, <3>4
  <2>2. ASSUME NEW m \in 1..Len(plugins), e \in registry[plugins[m]]
        PROVE  \E n \in DOMAIN Walk : e \in Walk[n]
    <3>1. m + 2 \in DOMAIN Walk
          BY WalkIs
    <3>2. e \in Walk[m + 2]
          BY <2>2, WalkIs
    <3> QED BY <3>1, <3>2
  <2>3. 1 \in DOMAIN Walk /\ 2 \in DOMAIN Walk
        BY WalkIs
  <2> QED BY <2>1, <2>2, <2>3, WalkIs
<1> QED BY <1>1, <1>2, <1>3

(***************************************************************************)
(* The invariant                                                           *)
(***************************************************************************)

LEMMA InitInv == Init => IInv
<1> SUFFICES ASSUME Init PROVE IInv OBVIOUS
<1> PICK hosted \in {{}, Defines[Host]}, named \in {{}, Converts[Host]} :
        /\ registry = [o \in Owners |-> IF o = Host THEN [at : hosted, owner : {Host}] ELSE {}]
        /\ customParameters = [o \in Owners |-> IF o = Host THEN [at : named, owner : {Host}]
                                                ELSE {}]
        /\ converterMap = customParameters
    BY DEF Init
<1>1. /\ [at : hosted, owner : {Host}] \in {{}, OwnDefinitions(Host)}
      /\ [at : named, owner : {Host}] \in {{}, OwnParameters(Host)}
      BY DEF OwnDefinitions, OwnParameters
<1>2. /\ registry[Host] \in {{}, OwnDefinitions(Host)}
      /\ customParameters[Host] \in {{}, OwnParameters(Host)}
      /\ \A l \in Libraries : registry[l] = {} /\ customParameters[l] = {}
      BY <1>1, HostIsOwner
<1>3. /\ registry \in [Owners -> SUBSET Entries(Locations)]
      /\ customParameters \in [Owners -> SUBSET Entries(Names)]
      BY <1>2, Owned, HostIsOwner DEF Owners
<1>4. TypeOK
  <2>1. instanceOf \in [Owners -> Owners]
        BY DEF Init
  <2>2. session \in 0..MaxSessions
        BY DEF Init
  <2>3. /\ shared \in BOOLEAN /\ failed \in BOOLEAN /\ phase = "idle"
        /\ staticRegistry = {} /\ staticCustomParameters = {} /\ converterSnapshot = {}
        /\ plugins = << >> /\ libraries = << >> /\ todo = << >> /\ files = << >>
        /\ mapped = {} /\ contextOwners = {}
        BY DEF Init
  <2>4. << >> \in Seq(Libraries) /\ << >> \in Seq(Paths)
        OBVIOUS
  <2> QED BY <1>3, <2>1, <2>2, <2>3, <2>4 DEF TypeOK, Phases
<1>5. OwnerInv
      BY <1>2, Owned, HostIsOwner DEF Init, OwnerInv, InMemory, ToSet
<1>6. ListInv
  <2>1. plugins = << >> /\ registry[Host] \subseteq OwnDefinitions(Host)
        BY <1>2 DEF Init
  <2>2. \A e, f \in registry[Host] : e.at = f.at => e = f
        BY <2>1, Owned, HostIsOwner
  <2>3. DOMAIN plugins = {}
        BY <2>1
  <2> QED BY <2>1, <2>2, <2>3 DEF ListInv
<1>7. SessionInv
      BY <1>2 DEF Init, SessionInv
<1> QED BY <1>4, <1>5, <1>6, <1>7 DEF IInv

(* Both snapshots are taken before anything is loaded.                     *)
LEMMA SnapshotKeeps == ASSUME IInv, TakeSnapshot PROVE IInv'
<1> USE DEF IInv, TakeSnapshot
<1>1. /\ phase = "idle" /\ plugins = << >> /\ plugins' = plugins
      /\ registry[Host] \in {{}, OwnDefinitions(Host)}
      /\ customParameters[Host] \in {{}, OwnParameters(Host)}
      BY DEF SessionInv
<1>2. /\ registry' \in [Owners -> SUBSET Entries(Locations)]
      /\ customParameters' \in [Owners -> SUBSET Entries(Names)]
      /\ \A l \in Libraries : registry'[l] = registry[l]
                              /\ customParameters'[l] = customParameters[l]
      BY HostIsOwner DEF TypeOK
<1>3. registry'[Host] = {} /\ customParameters'[Host] = {}
  <2>1. CASE staticRegistry = {} /\ staticCustomParameters = {}
        BY <2>1, HostIsOwner DEF TypeOK
  <2>2. CASE staticRegistry # {} \/ staticCustomParameters # {}
        BY <2>2, <1>1, Owned, HostIsOwner DEF SessionInv
  <2> QED BY <2>1, <2>2
<1>4. /\ staticRegistry' \in {{}, OwnDefinitions(Host)}
      /\ staticCustomParameters' \in {{}, OwnParameters(Host)}
      BY <1>1 DEF OwnerInv
<1>5. converterSnapshot' = staticCustomParameters'
  <2>1. converterMap[Host] = staticCustomParameters \union customParameters[Host]
        BY <1>1 DEF SessionInv
  <2>2. CASE staticRegistry = {} /\ staticCustomParameters = {}
        BY <2>1, <2>2
  <2>3. CASE ~(staticRegistry = {} /\ staticCustomParameters = {})
        BY <2>1, <2>3, <1>3
  <2> QED BY <2>2, <2>3
<1>6. TypeOK'
  <2>1. todo' \in Seq(Paths) /\ session' \in 0..MaxSessions
        BY DEF TypeOK
  <2> QED BY <1>1, <1>2, <1>4, <1>5, <2>1 DEF TypeOK, Phases, memory
<1>7. OwnerInv'
      BY <1>1, <1>2, <1>3, <1>4 DEF OwnerInv, memory, InMemory
<1>8. ListInv'
      BY <1>1, <1>3 DEF ListInv
<1>9. SessionInv'
      BY <1>1, <1>3, <1>5 DEF SessionInv
<1> QED BY <1>6, <1>7, <1>8, <1>9

(* Whatever goes wrong, the tables stay and Cleanup follows.               *)
LEMMA ThrowKeeps ==
    ASSUME IInv, phase \in {"resolve", "open", "register"}, Throw,
           UNCHANGED << tables, maps, memory >>
    PROVE  IInv'
<1> USE DEF IInv, Throw, tables, maps, memory
<1>1. TypeOK'
      BY DEF TypeOK, Phases
<1>2. OwnerInv'
      BY DEF OwnerInv, InMemory
<1>3. ListInv'
      BY DEF ListInv
<1>4. SessionInv'
      BY DEF SessionInv
<1> QED BY <1>1, <1>2, <1>3, <1>4

LEMMA LoadPathKeeps == ASSUME IInv, LoadPath PROVE IInv'
<1>1. CASE Throw
      BY <1>1, ThrowKeeps DEF LoadPath
<1>2. CASE ~Throw
  <2> USE <1>2 DEF IInv, LoadPath, tables, maps, memory
  <2>1. TypeOK'
    <3>1. files' \in Seq(Libraries) /\ todo' \in Seq(Paths)
      <4>1. Head(todo) \in Paths /\ Tail(todo) \in Seq(Paths)
            BY DEF TypeOK
      <4>2. Head(todo).holds \in Seq(Libraries)
            BY <4>1 DEF Paths
      <4> QED BY <4>1, <4>2
    <3> QED BY <3>1 DEF TypeOK, Phases
  <2>2. OwnerInv'
        BY DEF OwnerInv, InMemory
  <2>3. ListInv'
        BY DEF ListInv
  <2>4. SessionInv'
        BY DEF SessionInv
  <2> QED BY <2>1, <2>2, <2>3, <2>4
<1> QED BY <1>1, <1>2

(* The static constructors of a library that has just come into memory.    *)
LEMMA Registered ==
    ASSUME TypeOK, OwnerInv, ListInv, phase # "idle", SessionInv,
           NEW l \in Libraries, Register(l), UNCHANGED shared
    PROVE  /\ registry' \in [Owners -> SUBSET Entries(Locations)]
           /\ customParameters' \in [Owners -> SUBSET Entries(Names)]
           /\ converterMap' \in [Owners -> SUBSET Entries(Names)]
           /\ \A k \in Libraries :
                 /\ registry'[k] \subseteq OwnDefinitions(k)
                 /\ customParameters'[k] \subseteq OwnParameters(k)
                 /\ converterMap'[k] \subseteq OwnParameters(k)
           /\ registry'[Host] \subseteq registry[Host] \union OwnDefinitions(l)
           /\ customParameters'[Host] \subseteq customParameters[Host] \union OwnParameters(l)
           /\ converterMap'[Host] \subseteq converterMap[Host] \union OwnParameters(l)
           /\ IF shared THEN \A e, f \in registry'[Host] : e.at = f.at => e = f
              ELSE registry'[Host] \subseteq OwnDefinitions(Host)
<1> DEFINE i == Instance(l)
           D == TryEmplace(registry[i], OwnDefinitions(l))
           P == TryEmplace(customParameters[i], OwnParameters(l))
           C == Assign(converterMap[i], OwnParameters(l))
<1>1. i \in Owners /\ l \in Owners /\ (shared => i = Host) /\ (~shared => i = l)
      BY HostIsOwner DEF Instance
<1>2. /\ D \subseteq registry[i] \union OwnDefinitions(l)
      /\ P \subseteq customParameters[i] \union OwnParameters(l)
      /\ C \subseteq converterMap[i] \union OwnParameters(l)
      BY Emplaced, Assigned
<1>3. /\ registry' = [registry EXCEPT ![i] = D]
      /\ customParameters' = [customParameters EXCEPT ![i] = P]
      /\ converterMap' = [converterMap EXCEPT ![i] = C]
      BY DEF Register
<1>4. /\ OwnDefinitions(l) \subseteq Entries(Locations)
      /\ OwnParameters(l) \subseteq Entries(Names)
      BY <1>1, Owned
<1>5. shared => \A e, f \in registry'[Host] : e.at = f.at => e = f
  <2>1. ASSUME shared PROVE \A e, f \in D : e.at = f.at => e = f
    <3>1. \A e, f \in OwnDefinitions(l) : e.at = f.at => e = f
          BY <1>1, Owned
    <3>2. \A e, f \in registry[i] : e.at = f.at => e = f
          BY <1>1, <2>1 DEF ListInv
    <3> QED BY <3>1, <3>2, Emplaced
  <2> HIDE DEF D
  <2> QED BY <1>1, <1>3, <2>1, HostIsOwner DEF TypeOK
<1> HIDE DEF D, P, C, i
<1> QED BY <1>1, <1>2, <1>3, <1>4, <1>5, HostIsOwner DEF TypeOK, OwnerInv, ListInv

LEMMA OpenKeeps == ASSUME IInv, OpenLibrary PROVE IInv'
<1> DEFINE l == Head(files)
<1>1. CASE ~Opens(l)
      BY <1>1, ThrowKeeps DEF OpenLibrary
<1>2. CASE Opens(l)
  <2> USE DEF IInv
  <2>1. /\ phase = "open" /\ phase' = "register" /\ files # << >>
        /\ libraries' = Append(libraries, l)
        /\ mapped' = mapped \union {l}
        /\ UNCHANGED << shared, staticRegistry, staticCustomParameters, plugins,
                        converterSnapshot, instanceOf, contextOwners,
                        failed, todo, files, session >>
        BY <1>2 DEF OpenLibrary
  <2>2. l \in Libraries
        BY <2>1 DEF TypeOK
  <2>3. /\ registry' \in [Owners -> SUBSET Entries(Locations)]
        /\ customParameters' \in [Owners -> SUBSET Entries(Names)]
        /\ converterMap' \in [Owners -> SUBSET Entries(Names)]
        /\ \A k \in Libraries :
              /\ registry'[k] \subseteq OwnDefinitions(k)
              /\ customParameters'[k] \subseteq OwnParameters(k)
              /\ converterMap'[k] \subseteq OwnParameters(k)
        /\ registry'[Host] \subseteq registry[Host] \union OwnDefinitions(l)
        /\ customParameters'[Host] \subseteq customParameters[Host] \union OwnParameters(l)
        /\ converterMap'[Host] \subseteq converterMap[Host] \union OwnParameters(l)
        /\ IF shared THEN \A e, f \in registry'[Host] : e.at = f.at => e = f
           ELSE registry'[Host] \subseteq OwnDefinitions(Host)
    <3>1. CASE l \in mapped
          BY <1>2, <2>1, <3>1 DEF OpenLibrary, TypeOK, OwnerInv, ListInv
    <3>2. CASE l \notin mapped
      <4>1. Register(l)
            BY <1>2, <3>2 DEF OpenLibrary
      <4> QED BY <2>1, <2>2, <4>1, Registered
    <3> QED BY <3>1, <3>2
  <2>4. \A e \in OwnDefinitions(l) \union OwnParameters(l) : e.owner = l
        BY <2>2, Owned, HostIsOwner
  <2>5. TypeOK'
    <3>1. libraries' \in Seq(Libraries)
          BY <2>1, <2>2 DEF TypeOK
    <3> QED BY <2>1, <2>2, <2>3, <3>1 DEF TypeOK, Phases
  <2>6. OwnerInv'
    <3>1. ToSet(libraries') \subseteq ToSet(libraries) \union {l}
          BY <2>1, <2>2 DEF TypeOK, ToSet
    <3> QED BY <2>1, <2>3, <2>4, <3>1 DEF OwnerInv, InMemory
  <2>7. ListInv'
        BY <2>1, <2>3 DEF ListInv
  <2>8. SessionInv'
    <3>1. \A e \in registry'[Host] \union customParameters'[Host] : e.owner # Host
          BY <2>1, <2>2, <2>3, <2>4, HostIsOwner DEF SessionInv
    <3> QED BY <2>1, <3>1 DEF SessionInv
  <2> QED BY <2>5, <2>6, <2>7, <2>8
<1> QED BY <1>1, <1>2

(* A library joins the list once, and its converters move to the host's.   *)
LEMMA RegisterKeeps == ASSUME IInv, CallRegister PROVE IInv'
<1> DEFINE l == Head(files)
<1>1. CASE ~HasSymbol(l)
      BY <1>1, ThrowKeeps DEF CallRegister
<1>2. CASE HasSymbol(l)
  <2> USE DEF IInv
  <2>1. /\ phase = "register" /\ phase' = "open" /\ files' = Tail(files)
        /\ UNCHANGED << shared, memory, failed, todo, session >>
        /\ UNCHANGED << registry, customParameters, staticRegistry, staticCustomParameters,
                        converterSnapshot >>
        /\ files # << >> /\ l \in mapped
        BY <1>2 DEF CallRegister, SessionInv, tables, maps
  <2>2. l \in Libraries /\ files' \in Seq(Libraries)
        BY <2>1 DEF TypeOK
  <2>3. /\ plugins' \in Seq(Libraries)
        /\ ToSet(plugins') \subseteq ToSet(plugins) \union {l}
        /\ \A m, n \in DOMAIN plugins' : m # n => plugins'[m] # plugins'[n]
        /\ shared => plugins' = plugins
    <3>1. CASE plugins' = plugins
          BY <3>1 DEF TypeOK, ListInv
    <3>2. CASE plugins' = Append(plugins, l) /\ l \notin ToSet(plugins) /\ ~shared
      <4>1. \A m \in DOMAIN plugins : plugins[m] # l
            BY <3>2 DEF ToSet
      <4> QED BY <2>2, <3>2, <4>1 DEF TypeOK, ListInv, ToSet
    <3> QED BY <1>2, <2>1, <2>2, <3>1, <3>2, HostIsOwner
            DEF CallRegister, CcrRegister, RegisterPlugin, Instance, tables
  <2>4. /\ converterMap' \in [Owners -> SUBSET Entries(Names)]
        /\ instanceOf' \in [Owners -> Owners]
        /\ \A k \in Libraries : converterMap'[k] \subseteq converterMap[k]
        /\ converterMap'[Host] \subseteq converterMap[Host] \union converterMap[l]
    <3>1. CASE UNCHANGED << converterMap, instanceOf >>
          BY <3>1 DEF TypeOK
    <3>2. CASE /\ converterMap' = [converterMap EXCEPT
                    ![Host] = TryEmplace(@, converterMap[l]), ![l] = {}]
               /\ instanceOf' = [instanceOf EXCEPT ![l] = Host]
      <4> DEFINE T == TryEmplace(converterMap[Host], converterMap[l])
      <4>1. T \subseteq converterMap[Host] \union converterMap[l]
            BY Emplaced
      <4>2. converterMap' = [converterMap EXCEPT ![Host] = T, ![l] = {}]
            BY <3>2
      <4>3. T \subseteq Entries(Names) /\ l \in Owners /\ l # Host
            BY <2>2, <4>1, HostIsOwner DEF TypeOK
      <4>4. converterMap' \in [Owners -> SUBSET Entries(Names)]
        <5> HIDE DEF T, l
        <5> QED BY <4>2, <4>3 DEF TypeOK
      <4>5. \A o \in Owners :
                converterMap'[o] = IF o = l THEN {} ELSE IF o = Host THEN T ELSE converterMap[o]
        <5> HIDE DEF T, l
        <5> QED BY <4>2, <4>3 DEF TypeOK
      <4>6. instanceOf' \in [Owners -> Owners]
            BY <3>2, HostIsOwner DEF TypeOK
      <4> HIDE DEF T, l
      <4> QED BY <4>1, <4>3, <4>4, <4>5, <4>6, HostIsOwner
    <3>3. CASE CcrRegister(l)
          BY <3>1, <3>2, <3>3, Zenon DEF CcrRegister
    <3> QED BY <1>2, <3>1, <3>3, Zenon DEF CallRegister, maps
  <2>5. \A e \in converterMap[l] : e.owner = l
        BY <2>2, Owned, HostIsOwner DEF OwnerInv
  <2>6. TypeOK'
        BY <2>1, <2>2, <2>3, <2>4 DEF TypeOK, Phases, memory
  <2>7. OwnerInv'
        BY <2>1, <2>3, <2>4, <2>5 DEF OwnerInv, InMemory, memory
  <2>8. ListInv'
        BY <2>1, <2>3 DEF ListInv
  <2>9. SessionInv'
        BY <2>1 DEF SessionInv
  <2> QED BY <2>6, <2>7, <2>8, <2>9
<1> QED BY <1>1, <1>2

(* Steps that only move on.                                                *)
LEMMA MoveKeeps ==
    ASSUME IInv, phase \in {"resolve", "open", "running"},
           phase' \in {"resolve", "running", "unregister"},
           UNCHANGED << shared, tables, maps, libraries, mapped, failed, todo, files, session >>,
           contextOwners' \subseteq Owners
    PROVE  IInv'
<1> USE DEF IInv, tables, maps
<1>1. TypeOK'
      BY DEF TypeOK, Phases
<1>2. OwnerInv'
      BY DEF OwnerInv, InMemory
<1>3. ListInv'
      BY DEF ListInv
<1>4. SessionInv'
      BY DEF SessionInv
<1> QED BY <1>1, <1>2, <1>3, <1>4

LEMMA KeepKeeps == ASSUME IInv, KeepInProgramContext PROVE IInv'
<1> USE DEF IInv, KeepInProgramContext, tables, maps, work
<1>1. contextOwners' \subseteq Owners
  <2>1. PICK e \in Visible : contextOwners' = contextOwners \union {e.owner}
        OBVIOUS
  <2>2. e \in Entries(Locations)
    <3>1. plugins \in Seq(Libraries) /\ ToSet(plugins) \subseteq Libraries
          BY DEF TypeOK, OwnerInv
    <3>2. staticRegistry \subseteq Entries(Locations)
          BY Owned, HostIsOwner DEF OwnerInv
    <3> QED BY <2>1, <3>1, <3>2, VisibleIs, HostIsOwner DEF TypeOK
  <2> QED BY <2>1, <2>2 DEF TypeOK, Entries
<1>2. TypeOK'
      BY <1>1 DEF TypeOK
<1>3. OwnerInv'
      BY DEF OwnerInv, InMemory
<1>4. ListInv'
      BY DEF ListInv
<1>5. SessionInv'
      BY DEF SessionInv
<1> QED BY <1>2, <1>3, <1>4, <1>5

(* Cleanup: first the list and the host's tables ...                       *)
LEMMA UnregisterKeeps == ASSUME IInv, UnregisterPlugins PROVE IInv'
<1> USE DEF IInv, UnregisterPlugins, maps, memory
<1>1. /\ registry' \in [Owners -> SUBSET Entries(Locations)]
      /\ customParameters' \in [Owners -> SUBSET Entries(Names)]
      /\ registry'[Host] = {} /\ customParameters'[Host] = {}
      /\ \A l \in Libraries : registry'[l] = registry[l]
                              /\ customParameters'[l] = customParameters[l]
      BY HostIsOwner DEF TypeOK
<1>2. TypeOK'
      BY <1>1 DEF TypeOK, Phases
<1>3. OwnerInv'
      BY <1>1 DEF OwnerInv, InMemory, ToSet
<1>4. ListInv'
      BY <1>1 DEF ListInv
<1>5. SessionInv'
      BY <1>1 DEF SessionInv
<1> QED BY <1>2, <1>3, <1>4, <1>5

(* ... then the converters ...                                             *)
LEMMA RestoreKeeps == ASSUME IInv, RestoreSnapshot PROVE IInv'
<1> USE DEF IInv, RestoreSnapshot, tables, memory
<1>1. converterSnapshot = staticCustomParameters /\ customParameters[Host] = {}
      BY DEF SessionInv
<1>2. /\ converterMap' \in [Owners -> SUBSET Entries(Names)]
      /\ converterMap'[Host] = staticCustomParameters
      /\ \A l \in Libraries : converterMap'[l] = converterMap[l]
      BY <1>1, HostIsOwner, Owned DEF TypeOK
<1>3. TypeOK'
      BY <1>2 DEF TypeOK, Phases
<1>4. OwnerInv'
      BY <1>2, Owned, HostIsOwner DEF OwnerInv, InMemory
<1>5. ListInv'
      BY DEF ListInv
<1>6. SessionInv'
      BY <1>1, <1>2 DEF SessionInv
<1> QED BY <1>3, <1>4, <1>5, <1>6

(* ... and only then the libraries.                                        *)
LEMMA UnloadKeeps == ASSUME IInv, UnloadAll PROVE IInv'
<1> USE DEF IInv
<1>1. /\ phase = "unload" /\ phase' = "destroy" /\ libraries' = << >>
      /\ mapped' = mapped \ Unmapped
      /\ registry' = [o \in Owners |-> IF o \in Unmapped THEN {} ELSE registry[o]]
      /\ customParameters' = [o \in Owners |-> IF o \in Unmapped THEN {} ELSE customParameters[o]]
      /\ converterMap' = [o \in Owners |-> IF o \in Unmapped THEN {} ELSE converterMap[o]]
      /\ instanceOf' = [o \in Owners |-> IF o \in Unmapped THEN o ELSE instanceOf[o]]
      /\ UNCHANGED << shared, staticRegistry, staticCustomParameters, plugins,
                      converterSnapshot, contextOwners, failed, todo, files, session >>
      BY DEF UnloadAll
<1>2. Unmapped \subseteq Libraries /\ Host \notin Unmapped
      BY HostIsOwner DEF TypeOK, Unmapped
<1>3. /\ registry' \in [Owners -> SUBSET Entries(Locations)]
      /\ customParameters' \in [Owners -> SUBSET Entries(Names)]
      /\ converterMap' \in [Owners -> SUBSET Entries(Names)]
      /\ instanceOf' \in [Owners -> Owners]
      BY <1>1 DEF TypeOK
<1>4. /\ registry'[Host] = {} /\ customParameters'[Host] = {}
      /\ converterMap'[Host] = converterMap[Host]
      /\ converterMap[Host] = staticCustomParameters
      /\ plugins = << >>
      BY <1>1, <1>2, HostIsOwner DEF SessionInv
<1>5. \A l \in Libraries : /\ registry'[l] \subseteq registry[l]
                           /\ customParameters'[l] \subseteq customParameters[l]
                           /\ converterMap'[l] \subseteq converterMap[l]
      BY <1>1, HostIsOwner
<1>6. TypeOK'
      BY <1>1, <1>3 DEF TypeOK, Phases
<1>7. OwnerInv'
  <2>1. ToSet(plugins') = {} /\ ToSet(libraries') = {}
        BY <1>1, <1>4 DEF ToSet
  <2>2. \A e \in converterMap'[Host] : e.owner \in InMemory'
        BY <1>4, Owned, HostIsOwner DEF OwnerInv, InMemory
  <2> QED BY <1>1, <1>4, <1>5, <2>1, <2>2 DEF OwnerInv
<1>8. ListInv'
      BY <1>1, <1>4 DEF ListInv
<1>9. SessionInv'
      BY <1>1, <1>4 DEF SessionInv
<1> QED BY <1>6, <1>7, <1>8, <1>9

LEMMA DestroyKeeps == ASSUME IInv, DestroyProgramContext PROVE IInv'
<1> USE DEF IInv, DestroyProgramContext, tables, maps
<1>1. TypeOK'
      BY DEF TypeOK, Phases
<1>2. OwnerInv'
      BY DEF OwnerInv, InMemory
<1>3. ListInv'
      BY DEF ListInv
<1>4. SessionInv'
      BY DEF SessionInv
<1> QED BY <1>1, <1>2, <1>3, <1>4

LEMMA StutterKeeps == ASSUME IInv, UNCHANGED vars PROVE IInv'
BY DEF IInv, vars, tables, maps, memory, work, TypeOK, OwnerInv, ListInv, SessionInv, InMemory

LEMMA StepKeeps == ASSUME IInv, [Next]_vars PROVE IInv'
<1>1. CASE NextPath \/ Loaded \/ EndSession
  <2>1. contextOwners' \subseteq Owners
        BY <1>1 DEF NextPath, Loaded, EndSession, memory, IInv, TypeOK
  <2> QED BY <1>1, <2>1, MoveKeeps DEF NextPath, Loaded, EndSession, memory
<1> QED BY <1>1, SnapshotKeeps, LoadPathKeeps, OpenKeeps, RegisterKeeps, KeepKeeps,
           UnregisterKeeps, RestoreKeeps, UnloadKeeps, DestroyKeeps, StutterKeeps DEF Next

-----------------------------------------------------------------------------
(* Theorems                                                                *)

(* The invariant behind all that follows.                                  *)
THEOREM SessionInvariance == Spec => []IInv
<1>1. Init => IInv
      BY InitInv
<1>2. IInv /\ [Next]_vars => IInv'
      BY StepKeeps
<1> QED BY <1>1, <1>2, PTL DEF Spec

(* Type correctness.                                                       *)
THEOREM PluginsTypeCorrect == Spec => []TypeOK
<1>1. IInv => TypeOK
      BY DEF IInv
<1> QED BY <1>1, SessionInvariance, PTL

LEMMA ParametersAre ==
    ASSUME IInv
    PROVE  GetRegisteredParameters
             \subseteq staticCustomParameters \union customParameters[Host]
                       \union UNION {OwnParameters(l) : l \in ToSet(plugins)}
<1>1. ToSet(plugins) \subseteq Libraries
      BY DEF IInv, OwnerInv, TypeOK
<1> QED BY <1>1 DEF GetRegisteredParameters, IInv, OwnerInv

(* Nothing the host can reach lies in a library that is gone.              *)
THEOREM NothingIsLeftDangling == Spec => []NothingDangles
<1>1. IInv => NothingDangles
  <2> SUFFICES ASSUME IInv PROVE NothingDangles OBVIOUS
  <2> USE DEF IInv
  <2>1. /\ plugins \in Seq(Libraries)
        /\ ToSet(plugins) \subseteq mapped
        /\ ToSet(libraries) \subseteq mapped
        /\ mapped \subseteq Libraries
        BY DEF TypeOK, OwnerInv
  <2>2. \A e \in staticRegistry \union staticCustomParameters : e.owner \in InMemory
        BY Owned, HostIsOwner DEF OwnerInv, InMemory
  <2>3. \A e \in registry[Host] \union customParameters[Host] \union converterMap[Host] :
            e.owner \in InMemory
        BY DEF OwnerInv
  <2>4. \A l \in ToSet(plugins) :
            \A e \in OwnDefinitions(l) \union OwnParameters(l) : e.owner \in InMemory
        BY <2>1, Owned, HostIsOwner DEF InMemory
  <2>5. \A e \in Visible : e.owner \in InMemory
    <3>1. \A l \in ToSet(plugins) : registry[l] \subseteq OwnDefinitions(l)
          BY <2>1 DEF OwnerInv
    <3> QED BY <2>1, <2>2, <2>3, <2>4, <3>1, VisibleIs
  <2>6. \A e \in GetRegisteredParameters : e.owner \in InMemory
        BY <2>2, <2>3, <2>4, ParametersAre
  <2> QED BY <2>1, <2>3, <2>5, <2>6 DEF NothingDangles
<1> QED BY <1>1, SessionInvariance, PTL

(* A session leaves nothing behind.                                        *)
THEOREM SessionsLeaveNothing == Spec => []OnlyHostRemains
<1>1. IInv => OnlyHostRemains
  <2> SUFFICES ASSUME IInv, phase \in {"idle", "destroy"}
               PROVE  /\ plugins = << >>
                      /\ Visible \in {{}, OwnDefinitions(Host)}
                      /\ GetRegisteredParameters \in {{}, OwnParameters(Host)}
                      /\ converterMap[Host] = GetRegisteredParameters
      BY DEF OnlyHostRemains
  <2> USE DEF IInv
  <2>1. plugins = << >> /\ ToSet(plugins) = {}
        BY DEF SessionInv, ToSet
  <2>2. Visible = staticRegistry \union registry[Host]
        BY <2>1, VisibleIs DEF TypeOK
  <2>3. GetRegisteredParameters = staticCustomParameters \union customParameters[Host]
        BY <2>1 DEF GetRegisteredParameters
  <2>4. /\ staticRegistry \in {{}, OwnDefinitions(Host)}
        /\ registry[Host] \in {{}, OwnDefinitions(Host)}
        /\ staticCustomParameters \in {{}, OwnParameters(Host)}
        /\ customParameters[Host] \in {{}, OwnParameters(Host)}
        BY DEF OwnerInv, SessionInv
  <2>5. converterMap[Host] = staticCustomParameters \union customParameters[Host]
        BY DEF SessionInv
  <2> QED BY <2>1, <2>2, <2>3, <2>4, <2>5
<1> QED BY <1>1, SessionInvariance, PTL

(* Nothing is enumerated twice.                                            *)
THEOREM NothingIsMetTwice == Spec => []EnumeratedOnce
<1>1. IInv => EnumeratedOnce
  <2> SUFFICES ASSUME IInv PROVE EnumeratedOnce OBVIOUS
  <2> USE DEF IInv
  <2>1. plugins \in Seq(Libraries) /\ Len(plugins) \in Nat
        BY DEF TypeOK
  <2>2. \A e \in staticRegistry : e.owner = Host
        BY Owned, HostIsOwner DEF OwnerInv
  <2>3. staticRegistry # {} => \A e \in registry[Host] : e.owner # Host
        BY DEF SessionInv
  <2>4. \A i \in 1..Len(plugins) : plugins[i] \in Libraries
        BY <2>1
  <2>5. \A i \in 1..Len(plugins) : \A e \in registry[plugins[i]] : e.owner = plugins[i]
        BY <2>4, Owned, HostIsOwner DEF OwnerInv
  <2>6. plugins # << >> => \A e \in registry[Host] : e.owner = Host
        BY Owned, HostIsOwner DEF ListInv
  <2>7. ASSUME NEW m \in DOMAIN Walk, NEW n \in DOMAIN Walk, m < n
        PROVE  Walk[m] \intersect Walk[n] = {}
    <3>1. m \in 1..(Len(plugins) + 2) /\ n \in 1..(Len(plugins) + 2)
          BY <2>1, WalkIs
    <3>2. CASE m = 1 /\ n = 2
          BY <2>1, <2>2, <2>3, <3>2, WalkIs
    <3>3. CASE m \in {1, 2} /\ n > 2
      <4>1. n - 2 \in 1..Len(plugins) /\ n = (n - 2) + 2
            BY <2>1, <3>1, <3>3
      <4>2. Walk[n] = registry[plugins[n - 2]]
            BY <2>1, <4>1, WalkIs
      <4>3. \A e \in Walk[n] : e.owner # Host
            BY <2>4, <2>5, <4>1, <4>2, HostIsOwner
      <4>4. plugins # << >>
            BY <2>1, <4>1
      <4>5. \A e \in Walk[m] : e.owner = Host
            BY <2>1, <2>2, <2>6, <3>3, <4>4, WalkIs
      <4> QED BY <4>3, <4>5
    <3>4. CASE m > 2 /\ n > 2
      <4>1. /\ m - 2 \in 1..Len(plugins) /\ m = (m - 2) + 2
            /\ n - 2 \in 1..Len(plugins) /\ n = (n - 2) + 2
            /\ m - 2 # n - 2
            BY <2>1, <2>7, <3>1, <3>4
      <4>2. Walk[m] = registry[plugins[m - 2]] /\ Walk[n] = registry[plugins[n - 2]]
            BY <2>1, <4>1, WalkIs
      <4>3. plugins[m - 2] # plugins[n - 2]
            BY <2>1, <4>1 DEF ListInv
      <4>4. /\ \A e \in registry[plugins[m - 2]] : e.owner = plugins[m - 2]
            /\ \A e \in registry[plugins[n - 2]] : e.owner = plugins[n - 2]
            BY <2>5, <4>1
      <4>5. \A e \in Walk[m] : e \notin Walk[n]
        <5> DEFINE a == plugins[m - 2]
                   b == plugins[n - 2]
        <5>1. /\ a # b
              /\ \A e \in Walk[m] : e.owner = a
              /\ \A e \in Walk[n] : e.owner = b
              BY <4>2, <4>3, <4>4
        <5> HIDE DEF a, b
        <5> QED BY <5>1
      <4> QED BY <4>5
    <3>5. \/ m = 1 /\ n = 2
          \/ m \in {1, 2} /\ n > 2
          \/ m > 2 /\ n > 2
          BY <2>1, <2>7, <3>1
    <3> QED BY <3>2, <3>3, <3>4, <3>5
  <2>8. \A m, n \in DOMAIN Walk : m # n => Walk[m] \intersect Walk[n] = {}
    <3>1. ASSUME NEW m \in DOMAIN Walk, NEW n \in DOMAIN Walk, m # n PROVE m < n \/ n < m
          BY <2>1, <3>1, WalkIs
    <3> QED BY <2>7, <3>1
  <2> QED BY <2>8 DEF EnumeratedOnce, ListInv
<1> QED BY <1>1, SessionInvariance, PTL

(* What is the host's in the tables, and where it is.                      *)
HostPart ==
    /\ {e \in Visible : e.owner = Host}
         = staticRegistry \union {e \in registry[Host] : e.owner = Host}
    /\ {e \in GetRegisteredParameters : e.owner = Host}
         = staticCustomParameters \union {e \in customParameters[Host] : e.owner = Host}

LEMMA HostPartIs == IInv => HostPart
<1> SUFFICES ASSUME IInv PROVE HostPart OBVIOUS
<1> USE DEF IInv
<1>1. plugins \in Seq(Libraries) /\ ToSet(plugins) \subseteq Libraries
      BY DEF TypeOK, OwnerInv
<1>2. \A l \in Libraries : \A e \in registry[l] \union customParameters[l] : e.owner # Host
      BY Owned, HostIsOwner DEF OwnerInv
<1>3. \A e \in staticRegistry \union staticCustomParameters : e.owner = Host
      BY Owned, HostIsOwner DEF OwnerInv
<1>4. {e \in Visible : e.owner = Host}
        = staticRegistry \union {e \in registry[Host] : e.owner = Host}
      BY <1>1, <1>2, <1>3, VisibleIs
<1>5. {e \in GetRegisteredParameters : e.owner = Host}
        = staticCustomParameters \union {e \in customParameters[Host] : e.owner = Host}
      BY <1>1, <1>2, <1>3 DEF GetRegisteredParameters
<1> QED BY <1>4, <1>5 DEF HostPart

(* The host's own definitions stay within reach: they are set aside, never *)
(* dropped, and afterwards only plugins' entries come and go.              *)
LEMMA HostPartStays ==
    ASSUME IInv, IInv', HostPart, HostPart', [Next]_vars
    PROVE  /\ {e \in Visible : e.owner = Host} = {e \in Visible' : e.owner = Host}
           /\ {e \in GetRegisteredParameters : e.owner = Host}
                = {e \in GetRegisteredParameters' : e.owner = Host}
<1> DEFINE D == {e \in registry[Host] : e.owner = Host}
           P == {e \in customParameters[Host] : e.owner = Host}
<1>1. SUFFICES /\ staticRegistry \union D = staticRegistry' \union D'
               /\ staticCustomParameters \union P = staticCustomParameters' \union P'
      BY DEF HostPart
<1>2. CASE TakeSnapshot
  <2>1. /\ phase = "idle"
        /\ registry[Host] \in {{}, OwnDefinitions(Host)}
        /\ customParameters[Host] \in {{}, OwnParameters(Host)}
        BY <1>2 DEF TakeSnapshot, IInv, SessionInv
  <2>2. D = registry[Host] /\ P = customParameters[Host]
        BY <2>1, Owned, HostIsOwner
  <2>3. CASE staticRegistry = {} /\ staticCustomParameters = {}
    <3>1. registry'[Host] = {} /\ customParameters'[Host] = {}
          BY <1>2, <2>3, HostIsOwner DEF TakeSnapshot, IInv, TypeOK
    <3> QED BY <1>2, <2>2, <2>3, <3>1 DEF TakeSnapshot
  <2>4. CASE ~(staticRegistry = {} /\ staticCustomParameters = {})
        BY <1>2, <2>4 DEF TakeSnapshot
  <2> QED BY <2>3, <2>4
<1>3. CASE DestroyProgramContext \/ UNCHANGED vars
      BY <1>3 DEF DestroyProgramContext, vars, tables
<1>4. CASE ~TakeSnapshot /\ ~DestroyProgramContext /\ ~UNCHANGED vars
  <2>1. phase # "idle" /\ phase' # "idle" /\ UNCHANGED << staticRegistry, staticCustomParameters >>
        BY <1>4 DEF Next, LoadPath, OpenLibrary, CallRegister, NextPath, Loaded,
           KeepInProgramContext, EndSession, UnregisterPlugins, RestoreSnapshot, UnloadAll,
           Throw, tables, maps, memory, work
  <2>2. D = {} /\ P = {} /\ D' = {} /\ P' = {}
        BY <2>1 DEF IInv, SessionInv
  <2> QED BY <2>1, <2>2
<1> QED BY <1>2, <1>3, <1>4

(* At every moment the executable's own steps, hooks and parameters can be *)
(* looked up.                                                              *)
THEOREM HostStaysVisible == Spec => HostDefinitionsStay
<1>1. IInv => HostPart
      BY HostPartIs
<1>2. IInv /\ IInv' /\ HostPart /\ HostPart' /\ [Next]_vars =>
        [/\ {e \in Visible : e.owner = Host} = {e \in Visible' : e.owner = Host}
         /\ {e \in GetRegisteredParameters : e.owner = Host}
              = {e \in GetRegisteredParameters' : e.owner = Host}]_vars
      BY HostPartStays
<1> QED BY <1>1, <1>2, SessionInvariance, PTL DEF Spec, HostDefinitionsStay
-----------------------------------------------------------------------------
(* What loading has brought so far                                         *)

(* No name is lost when a table takes new entries.                         *)
LEMMA NamesStay ==
    ASSUME NEW reg, NEW new
    PROVE  /\ \A e \in reg \union new : \E f \in TryEmplace(reg, new) : f.at = e.at
           /\ \A e \in reg \union new : \E f \in Assign(reg, new) : f.at = e.at
BY DEF TryEmplace, Assign

LEMMA OwnNames ==
    ASSUME NEW o \in Owners
    PROVE  /\ \A at \in Defines[o] : \E e \in OwnDefinitions(o) : e.at = at
           /\ \A at \in Converts[o] : \E e \in OwnParameters(o) : e.at = at
<1>1. \A at \in Defines[o] : [at |-> at, owner |-> o] \in OwnDefinitions(o)
      BY DEF OwnDefinitions
<1>2. \A at \in Converts[o] : [at |-> at, owner |-> o] \in OwnParameters(o)
      BY DEF OwnParameters
<1> QED BY <1>1, <1>2

LEMMA InitLoads == Init => LoadedInv
<1> SUFFICES ASSUME Init PROVE LoadedInv OBVIOUS
<1>1. MapInv
      BY HostIsOwner DEF Init, MapInv, ToSet
<1>2. FreshInv /\ LoadInv
      BY DEF Init, FreshInv, LoadInv, Loading
<1> QED BY <1>1, <1>2 DEF LoadedInv

(* Steps that leave the tables and the libraries alone.                    *)
LEMMA QuietLoads ==
    ASSUME LoadedInv, UNCHANGED << shared, tables, maps, libraries, mapped >>,
           phase' \in Loading => phase \in Loading \ {"register"},
           phase' \in {"destroy", "idle"} => phase \in {"destroy", "idle"}
    PROVE  LoadedInv'
<1> USE DEF LoadedInv, tables, maps
<1>1. MapInv'
      BY DEF MapInv
<1>2. FreshInv'
      BY DEF FreshInv, Listed, Converted, Instance
<1>3. LoadInv'
      BY DEF LoadInv
<1> QED BY <1>1, <1>2, <1>3

(* The host's definitions are set aside, and the map has its converters.   *)
LEMMA SnapshotLoads == ASSUME IInv, IInv', LoadedInv, TakeSnapshot PROVE LoadedInv'
<1> USE DEF TakeSnapshot, LoadedInv
<1>1. /\ phase = "idle" /\ phase' = "resolve" /\ UNCHANGED << shared, converterMap, instanceOf, memory >>
      /\ plugins' = plugins
      OBVIOUS
<1>2. mapped \subseteq Resident /\ ToSet(libraries') = {}
      BY <1>1 DEF FreshInv, memory, ToSet
<1>3. MapInv'
      BY <1>1 DEF MapInv, memory
<1>4. FreshInv'
      BY <1>1, <1>2 DEF FreshInv, Loading, memory
<1>5. \A p \in staticCustomParameters' \union customParameters'[Host] : p \in converterMap[Host]
  <2>1. converterMap[Host] = staticCustomParameters \union customParameters[Host]
        BY <1>1 DEF IInv, SessionInv
  <2>2. /\ staticCustomParameters' \subseteq staticCustomParameters \union customParameters[Host]
        /\ customParameters'[Host] \subseteq customParameters[Host]
        BY HostIsOwner DEF IInv, TypeOK
  <2> QED BY <2>1, <2>2
<1>6. LoadInv'
      BY <1>1, <1>2, <1>5 DEF LoadInv
<1> QED BY <1>3, <1>4, <1>6

(* A library that has just come into memory.                               *)
LEMMA RegisterLoads ==
    ASSUME IInv, MapInv, phase \in Loading, NEW l \in Libraries \ mapped,
           Register(l), UNCHANGED << shared, instanceOf >>
    PROVE  /\ Listed(registry'[Instance(l)], Defines[l])
           /\ Listed(customParameters'[Instance(l)], Converts[l])
           /\ Converted(converterMap'[Instance(instanceOf[l])], Converts[l])
           /\ \A o \in Owners :
                 /\ registry[o] \subseteq registry'[o]
                 /\ customParameters[o] \subseteq customParameters'[o]
                 /\ \A c \in converterMap[o] : \E d \in converterMap'[o] : d.at = c.at
           /\ \A p \in customParameters'[Host] :
                 \/ p \in customParameters[Host]
                 \/ \E c \in converterMap'[Host] : c.at = p.at
<1> DEFINE i == Instance(l)
           D == TryEmplace(registry[i], OwnDefinitions(l))
           P == TryEmplace(customParameters[i], OwnParameters(l))
           C == Assign(converterMap[i], OwnParameters(l))
<1>1. i \in Owners /\ l \in Owners /\ i \in {l, Host} /\ instanceOf[l] = l
      BY HostIsOwner DEF Instance, MapInv
<1>2. /\ registry' = [registry EXCEPT ![i] = D]
      /\ customParameters' = [customParameters EXCEPT ![i] = P]
      /\ converterMap' = [converterMap EXCEPT ![i] = C]
      BY DEF Register
<1>3. /\ registry[i] \subseteq D /\ customParameters[i] \subseteq P
      /\ D \subseteq registry[i] \union OwnDefinitions(l)
      /\ P \subseteq customParameters[i] \union OwnParameters(l)
      BY Emplaced
<1>4. /\ \A e \in OwnDefinitions(l) : \E f \in D : f.at = e.at
      /\ \A e \in OwnParameters(l) : \E f \in P : f.at = e.at
      /\ \A e \in converterMap[i] \union OwnParameters(l) : \E f \in C : f.at = e.at
      BY NamesStay
<1>5. /\ \A e \in OwnDefinitions(l) \union OwnParameters(l) : e.owner # Host
      /\ \A e \in registry[i] \union customParameters[i] : e.owner # Host
  <2>1. \A e \in OwnDefinitions(l) \union OwnParameters(l) : e.owner = l
        BY <1>1, Owned
  <2>2. CASE i = Host
        BY <2>1, <2>2, HostIsOwner DEF IInv, SessionInv, Loading
  <2>3. CASE i = l
        BY <2>1, <2>3, HostIsOwner DEF IInv, OwnerInv
  <2> QED BY <1>1, <2>2, <2>3
<1>6. /\ registry'[i] = D /\ customParameters'[i] = P /\ converterMap'[i] = C
      /\ \A o \in Owners \ {i} :
            /\ registry'[o] = registry[o]
            /\ customParameters'[o] = customParameters[o]
            /\ converterMap'[o] = converterMap[o]
      <2> HIDE DEF D, P, C, i
      <2> QED BY <1>1, <1>2 DEF IInv, TypeOK
<1>7. Instance(instanceOf[l]) = i /\ Instance(l) = i
      BY <1>1
<1> HIDE DEF D, P, C, i
<1>8. Listed(D, Defines[l]) /\ Listed(P, Converts[l]) /\ Converted(C, Converts[l])
  <2>1. \A e \in D \union P : e.owner # Host
        BY <1>3, <1>5
  <2>2. /\ \A at \in Defines[l] : \E f \in D : f.at = at
        /\ \A at \in Converts[l] : \E f \in P : f.at = at
        /\ \A at \in Converts[l] : \E f \in C : f.at = at
        BY <1>1, <1>4, OwnNames
  <2> QED BY <2>1, <2>2 DEF Listed, Converted
<1>9. \A o \in Owners :
         /\ registry[o] \subseteq registry'[o]
         /\ customParameters[o] \subseteq customParameters'[o]
         /\ \A c \in converterMap[o] : \E d \in converterMap'[o] : d.at = c.at
      BY <1>3, <1>4, <1>6
<1>10. \A p \in customParameters'[Host] :
          \/ p \in customParameters[Host]
          \/ \E c \in converterMap'[Host] : c.at = p.at
  <2>1. CASE i = Host
        BY <1>3, <1>4, <1>6, <2>1
  <2>2. CASE i # Host
        BY <1>6, <2>2, HostIsOwner
  <2> QED BY <2>1, <2>2
<1> QED BY <1>6, <1>7, <1>8, <1>9, <1>10

(* What was listed and converted stays so while tables grow.               *)
LEMMA GrowingKeeps ==
    ASSUME IInv, LoadedInv, phase \in Loading, NEW l \in mapped \ Resident,
           UNCHANGED << shared, instanceOf >>,
           \A o \in Owners :
              /\ registry[o] \subseteq registry'[o]
              /\ customParameters[o] \subseteq customParameters'[o]
              /\ \A c \in converterMap[o] : \E d \in converterMap'[o] : d.at = c.at
    PROVE  /\ Listed(registry'[Instance(l)], Defines[l])
           /\ Listed(customParameters'[Instance(l)], Converts[l])
           /\ Converted(converterMap'[Instance(instanceOf[l])], Converts[l])
<1>1. /\ Listed(registry[Instance(l)], Defines[l])
      /\ Listed(customParameters[Instance(l)], Converts[l])
      /\ Converted(converterMap[Instance(instanceOf[l])], Converts[l])
      BY DEF LoadedInv, FreshInv
<1>2. Instance(l) \in Owners /\ Instance(instanceOf[l]) \in Owners
      BY HostIsOwner DEF Instance, IInv, TypeOK
<1> QED BY <1>1, <1>2 DEF Listed, Converted

LEMMA OpenLoads == ASSUME IInv, IInv', LoadedInv, OpenLibrary PROVE LoadedInv'
<1> DEFINE l == Head(files)
<1>1. CASE ~Opens(l)
      BY <1>1, QuietLoads DEF OpenLibrary, Throw, memory, Loading
<1>2. CASE Opens(l)
  <2>1. /\ phase = "open" /\ phase' = "register" /\ files' = files /\ files # << >>
        /\ libraries' = Append(libraries, l)
        /\ mapped' = mapped \union {l}
        /\ UNCHANGED << shared, staticRegistry, staticCustomParameters, plugins, instanceOf >>
        /\ phase \in Loading
        BY <1>2 DEF OpenLibrary, Loading
  <2>2. l \in Libraries /\ l \in Owners
        BY <2>1, HostIsOwner DEF IInv, TypeOK
  <2>3. /\ \A o \in Owners :
              /\ registry[o] \subseteq registry'[o]
              /\ customParameters[o] \subseteq customParameters'[o]
              /\ \A c \in converterMap[o] : \E d \in converterMap'[o] : d.at = c.at
        /\ \A p \in customParameters'[Host] :
              \/ p \in customParameters[Host]
              \/ \E c \in converterMap'[Host] : c.at = p.at
        /\ l \notin mapped =>
              /\ Listed(registry'[Instance(l)], Defines[l])
              /\ Listed(customParameters'[Instance(l)], Converts[l])
              /\ Converted(converterMap'[Instance(instanceOf[l])], Converts[l])
    <3>1. CASE l \in mapped
          BY <1>2, <3>1 DEF OpenLibrary
    <3>2. CASE l \notin mapped
      <4>1. Register(l)
            BY <1>2, <3>2 DEF OpenLibrary
      <4> HIDE DEF l
      <4> QED BY <2>1, <2>2, <3>2, <4>1, RegisterLoads DEF LoadedInv
    <3> QED BY <3>1, <3>2
  <2> HIDE DEF l
  <2>4. MapInv'
        BY <2>1 DEF LoadedInv, MapInv
  <2>5. FreshInv'
    <3>1. ASSUME NEW k \in mapped' \ Resident
          PROVE  /\ Listed(registry'[Instance(k)], Defines[k])
                 /\ Listed(customParameters'[Instance(k)], Converts[k])
                 /\ Converted(converterMap'[Instance(instanceOf[k])], Converts[k])
      <4>1. CASE k \in mapped
            BY <2>1, <2>3, <4>1, GrowingKeeps
      <4>2. CASE k = l /\ k \notin mapped
            BY <2>3, <4>2
      <4> QED BY <2>1, <4>1, <4>2
    <3>2. \A k : Instance(k)' = Instance(k) /\ Instance(instanceOf[k])' = Instance(instanceOf[k])
          BY <2>1 DEF Instance
    <3>3. \A k \in mapped' \ Resident :
             /\ Listed(registry'[Instance(k)'], Defines[k])
             /\ Listed(customParameters'[Instance(k)'], Converts[k])
             /\ Converted(converterMap'[Instance(instanceOf[k])'], Converts[k])
          BY <3>1, <3>2
    <3> QED BY <2>1, <3>3 DEF FreshInv, Listed, Converted
  <2>6. LoadInv'
    <3>1. ToSet(libraries') \subseteq ToSet(libraries) \union {l}
          BY <2>1, <2>2 DEF IInv, TypeOK, ToSet
    <3>2. \A p \in staticCustomParameters' \union customParameters'[Host] :
             \E c \in converterMap'[Host] : c.at = p.at
      <4>1. \A p \in staticCustomParameters \union customParameters[Host] :
               \E c \in converterMap[Host] : c.at = p.at
            BY <2>1 DEF LoadedInv, LoadInv
      <4>2. \A p \in staticCustomParameters \union customParameters[Host] :
               \E c \in converterMap'[Host] : c.at = p.at
        <5> TAKE p \in staticCustomParameters \union customParameters[Host]
        <5>1. PICK c \in converterMap[Host] : c.at = p.at
              BY <4>1
        <5>2. PICK d \in converterMap'[Host] : d.at = c.at
              BY <2>3, HostIsOwner
        <5> QED BY <5>1, <5>2
      <4> QED BY <2>1, <2>3, <4>2
    <3>3. \A k \in ToSet(libraries) : shared \/ k \in Skewed \/ k \in ToSet(plugins)
          BY <2>1 DEF LoadedInv, LoadInv
    <3>4. l = Head(files')
          BY <2>1 DEF l
    <3> QED BY <2>1, <3>1, <3>2, <3>3, <3>4 DEF LoadInv
  <2> QED BY <2>4, <2>5, <2>6 DEF LoadedInv
<1> QED BY <1>1, <1>2

LEMMA ToSetOfAppend ==
    ASSUME NEW S, NEW q \in Seq(S), NEW e
    PROVE  ToSet(Append(q, e)) = ToSet(q) \union {e} /\ Append(q, e) # q
<1>1. /\ DOMAIN Append(q, e) = DOMAIN q \union {Len(q) + 1}
      /\ Append(q, e)[Len(q) + 1] = e
      /\ \A n \in DOMAIN q : Append(q, e)[n] = q[n]
      /\ Len(Append(q, e)) = Len(q) + 1 /\ Len(q) \in Nat
      OBVIOUS
<1>2. \A x : x \in ToSet(Append(q, e)) <=> x \in ToSet(q) \union {e}
      BY <1>1, Zenon DEF ToSet
<1>3. Append(q, e) # q
      BY <1>1
<1> QED BY <1>2, <1>3

(* What registration does to the converters: none is lost, and those of    *)
(* the library are in the map it looks into from now on.                   *)
LEMMA MigrationKeeps ==
    ASSUME IInv, MapInv, NEW l \in Libraries, UNCHANGED shared,
           \/ /\ Instance(l) = Host \/ instanceOf[l] = Host
              /\ UNCHANGED << converterMap, instanceOf >>
           \/ /\ Instance(l) # Host
              /\ converterMap' = [converterMap EXCEPT
                    ![Host] = TryEmplace(@, converterMap[l]), ![l] = {}]
              /\ instanceOf' = [instanceOf EXCEPT ![l] = Host]
    PROVE  /\ \A c \in converterMap[Host] : \E d \in converterMap'[Host] : d.at = c.at
           /\ \A k \in Owners : \A c \in converterMap[Instance(instanceOf[k])] :
                 \E d \in converterMap'[Instance(instanceOf'[k])] : d.at = c.at
           /\ instanceOf'[l] = Host \/ shared
           /\ instanceOf' = [instanceOf EXCEPT ![l] = instanceOf'[l]]
           /\ instanceOf'[l] \in {instanceOf[l], Host}
<1>0. l \in Owners /\ l # Host /\ Host \in Owners
      BY HostIsOwner
<1>1. CASE /\ Instance(l) = Host \/ instanceOf[l] = Host
           /\ UNCHANGED << converterMap, instanceOf >>
      BY <1>0, <1>1 DEF Instance, IInv, TypeOK
<1>2. CASE /\ Instance(l) # Host
           /\ converterMap' = [converterMap EXCEPT
                    ![Host] = TryEmplace(@, converterMap[l]), ![l] = {}]
           /\ instanceOf' = [instanceOf EXCEPT ![l] = Host]
  <2> DEFINE T == TryEmplace(converterMap[Host], converterMap[l])
  <2>1. ~shared /\ \A o : Instance(o) = o
        BY <1>2 DEF Instance
  <2>2. \A c \in converterMap[Host] \union converterMap[l] : \E d \in T : d.at = c.at
        BY NamesStay
  <2>3. converterMap' = [converterMap EXCEPT ![Host] = T, ![l] = {}]
        BY <1>2
  <2>4. converterMap'[Host] = T
    <3> HIDE DEF T
    <3> QED BY <1>0, <2>3 DEF IInv, TypeOK
  <2>5. \A o \in Owners \ {Host, l} : converterMap'[o] = converterMap[o]
    <3> HIDE DEF T
    <3> QED BY <1>0, <2>3 DEF IInv, TypeOK
  <2>6. instanceOf'[l] = Host /\ \A k \in Owners \ {l} : instanceOf'[k] = instanceOf[k]
        BY <1>0, <1>2 DEF IInv, TypeOK
  <2>7. \A k \in Owners : instanceOf[k] \in {k, Host}
        BY DEF MapInv, Owners
  <2> HIDE DEF T
  <2>8. ASSUME NEW k \in Owners, NEW c \in converterMap[instanceOf[k]]
        PROVE  \E d \in converterMap'[instanceOf'[k]] : d.at = c.at
    <3>1. CASE k = l
          BY <2>2, <2>4, <2>6, <2>7, <2>8, <3>1
    <3>2. CASE k # l /\ instanceOf[k] = Host
          BY <2>2, <2>4, <2>6, <2>8, <3>2
    <3>3. CASE k # l /\ k # Host /\ instanceOf[k] = k
          BY <2>5, <2>6, <2>8, <3>3
    <3> QED BY <2>7, <3>1, <3>2, <3>3
  <2>9. \A k \in Owners : \A c \in converterMap[Instance(instanceOf[k])] :
            \E d \in converterMap'[Instance(instanceOf'[k])] : d.at = c.at
        BY <2>1, <2>8
  <2> QED BY <1>2, <2>2, <2>4, <2>6, <2>9
<1> QED BY <1>1, <1>2

LEMMA CallLoads == ASSUME IInv, IInv', LoadedInv, CallRegister PROVE LoadedInv'
<1> DEFINE l == Head(files)
<1>1. CASE ~HasSymbol(l)
      BY <1>1, QuietLoads DEF CallRegister, Throw, memory, Loading
<1>2. CASE HasSymbol(l)
  <2>1. /\ phase = "register" /\ phase' = "open" /\ phase \in Loading
        /\ UNCHANGED << shared, registry, customParameters, staticRegistry,
                        staticCustomParameters, libraries, mapped >>
        BY <1>2 DEF CallRegister, Loading, tables, maps, memory
  <2>2. l \in mapped /\ l \in Libraries /\ l \in Owners
        BY <2>1, HostIsOwner DEF IInv, SessionInv, TypeOK
  <2>3. \/ l \in Skewed /\ UNCHANGED << plugins, converterMap, instanceOf >>
        \/ CcrRegister(l)
        BY <1>2 DEF CallRegister, tables, maps
  <2> HIDE DEF l
  <2>4. /\ \A c \in converterMap[Host] : \E d \in converterMap'[Host] : d.at = c.at
        /\ \A k \in Owners : \A c \in converterMap[Instance(instanceOf[k])] :
              \E d \in converterMap'[Instance(instanceOf'[k])] : d.at = c.at
        /\ \A k \in Owners : instanceOf'[k] = instanceOf[k] \/ (k = l /\ instanceOf'[k] = Host)
    <3>1. CASE UNCHANGED << plugins, converterMap, instanceOf >>
          BY <3>1
    <3>2. CASE CcrRegister(l)
      <4>1. \/ /\ Instance(l) = Host \/ instanceOf[l] = Host
               /\ UNCHANGED << converterMap, instanceOf >>
            \/ /\ Instance(l) # Host
               /\ converterMap' = [converterMap EXCEPT
                     ![Host] = TryEmplace(@, converterMap[l]), ![l] = {}]
               /\ instanceOf' = [instanceOf EXCEPT ![l] = Host]
            BY <3>2, Zenon DEF CcrRegister
      <4>2. /\ \A c \in converterMap[Host] : \E d \in converterMap'[Host] : d.at = c.at
            /\ \A k \in Owners : \A c \in converterMap[Instance(instanceOf[k])] :
                  \E d \in converterMap'[Instance(instanceOf'[k])] : d.at = c.at
            /\ instanceOf' = [instanceOf EXCEPT ![l] = instanceOf'[l]]
            /\ instanceOf'[l] \in {instanceOf[l], Host}
            BY <2>1, <2>2, <4>1, MigrationKeeps DEF LoadedInv
      <4>3. \A k \in Owners : instanceOf'[k] = instanceOf[k] \/ (k = l /\ instanceOf'[k] = Host)
            BY <4>2 DEF IInv, TypeOK
      <4> QED BY <4>2, <4>3
    <3> QED BY <2>3, <3>1, <3>2
  <2>5. /\ plugins' = plugins \/ (plugins' = Append(plugins, l) /\ Instance(l) # Host)
        /\ l \in Skewed \/ shared \/ l \in ToSet(plugins')
        /\ plugins' # plugins => instanceOf'[l] = Host
    <3>1. CASE l \in Skewed /\ UNCHANGED << plugins, converterMap, instanceOf >>
          BY <3>1
    <3>2. CASE CcrRegister(l)
      <4>1. /\ plugins' = IF Instance(l) = Host \/ l \in ToSet(plugins) THEN plugins
                          ELSE Append(plugins, l)
            /\ Instance(l) # Host => instanceOf'[l] = Host
            BY <2>2, <3>2 DEF CcrRegister, RegisterPlugin, IInv, TypeOK
      <4>2. l \in ToSet(Append(plugins, l))
            BY <2>2, ToSetOfAppend DEF IInv, TypeOK
      <4>3. Instance(l) = Host => shared
            BY <2>2, HostIsOwner DEF Instance
      <4> QED BY <4>1, <4>2, <4>3
    <3> QED BY <2>3, <3>1, <3>2
  <2>6. /\ ToSet(plugins) \subseteq ToSet(plugins')
        /\ ToSet(plugins') \subseteq ToSet(plugins) \union {l}
        /\ \A k \in ToSet(plugins') :
              \/ k \in ToSet(plugins)
              \/ k = l /\ Instance(l) # Host /\ instanceOf'[l] = Host
    <3>1. CASE plugins' = plugins
          BY <3>1
    <3>2. CASE plugins' = Append(plugins, l)
      <4>1. /\ ToSet(Append(plugins, l)) = ToSet(plugins) \union {l}
            /\ Append(plugins, l) # plugins
            BY <2>2, ToSetOfAppend DEF IInv, TypeOK
      <4> QED BY <2>5, <3>2, <4>1
    <3> QED BY <2>5, <3>1, <3>2
  <2>7. MapInv'
    <3>1. /\ instanceOf[Host] = Host
          /\ \A k \in Libraries : instanceOf[k] \in {k, Host}
          /\ \A k \in Libraries \ mapped : instanceOf[k] = k
          /\ \A k \in ToSet(plugins) : ~shared /\ instanceOf[k] = Host
          BY DEF LoadedInv, MapInv
    <3>2. \A k \in ToSet(plugins') : k \in Owners
          BY HostIsOwner DEF IInv, TypeOK, ToSet
    <3>3. \A k \in ToSet(plugins') : ~shared /\ instanceOf'[k] = Host
          BY <2>4, <2>6, <3>1, <3>2 DEF Instance
    <3>4. \A k \in Libraries : instanceOf'[k] \in {k, Host}
          BY <2>4, <3>1, HostIsOwner
    <3>5. \A k \in Libraries \ mapped : instanceOf'[k] = k
          BY <2>2, <2>4, <3>1, HostIsOwner
    <3>6. instanceOf'[Host] = Host
          BY <2>4, <3>1, HostIsOwner
    <3> QED BY <2>1, <3>3, <3>4, <3>5, <3>6 DEF MapInv
  <2>8. FreshInv'
    <3>1. \A k : Instance(k)' = Instance(k) /\ Instance(instanceOf[k])' = Instance(instanceOf'[k])
          BY <2>1 DEF Instance
    <3>2. ASSUME NEW k \in mapped \ Resident
          PROVE  /\ Listed(registry'[Instance(k)'], Defines[k])
                 /\ Listed(customParameters'[Instance(k)'], Converts[k])
                 /\ Converted(converterMap'[Instance(instanceOf[k])'], Converts[k])
      <4>1. /\ Listed(registry[Instance(k)], Defines[k])
            /\ Listed(customParameters[Instance(k)], Converts[k])
            /\ Converted(converterMap[Instance(instanceOf[k])], Converts[k])
            BY <2>1 DEF LoadedInv, FreshInv
      <4>2. k \in Owners
            BY HostIsOwner DEF IInv, TypeOK
      <4>3. Converted(converterMap'[Instance(instanceOf'[k])], Converts[k])
            BY <2>4, <4>1, <4>2 DEF Converted
      <4> QED BY <2>1, <3>1, <4>1, <4>3
    <3> QED BY <2>1, <3>2 DEF FreshInv, Listed, Converted
  <2>9. LoadInv'
    <3>1. \A p \in staticCustomParameters \union customParameters[Host] :
             \E c \in converterMap'[Host] : c.at = p.at
      <4> TAKE p \in staticCustomParameters \union customParameters[Host]
      <4>1. PICK c \in converterMap[Host] : c.at = p.at
            BY <2>1 DEF LoadedInv, LoadInv
      <4>2. PICK d \in converterMap'[Host] : d.at = c.at
            BY <2>4
      <4> QED BY <4>1, <4>2
    <3>2. \A k \in ToSet(libraries) :
             shared \/ k \in Skewed \/ k \in ToSet(plugins) \/ k = l
          BY <2>1 DEF LoadedInv, LoadInv, l
    <3> QED BY <2>1, <2>5, <2>6, <3>1, <3>2 DEF LoadInv
  <2> QED BY <2>7, <2>8, <2>9 DEF LoadedInv
<1> QED BY <1>1, <1>2

(* Cleanup: the list goes, then the libraries that leave memory go back to *)
(* a map of their own.                                                     *)
LEMMA UnregisterLoads == ASSUME LoadedInv, UnregisterPlugins PROVE LoadedInv'
<1> USE DEF UnregisterPlugins, maps, memory
<1>1. MapInv'
      BY DEF LoadedInv, MapInv, ToSet
<1>2. FreshInv' /\ LoadInv'
      BY DEF FreshInv, LoadInv, Loading
<1> QED BY <1>1, <1>2 DEF LoadedInv

LEMMA RestoreLoads == ASSUME LoadedInv, RestoreSnapshot PROVE LoadedInv'
<1> USE DEF RestoreSnapshot, tables, memory
<1>1. MapInv'
      BY DEF LoadedInv, MapInv
<1>2. FreshInv' /\ LoadInv'
      BY DEF FreshInv, LoadInv, Loading
<1> QED BY <1>1, <1>2 DEF LoadedInv

LEMMA UnloadLoads == ASSUME IInv, LoadedInv, UnloadAll PROVE LoadedInv'
<1>1. /\ phase = "unload" /\ phase' = "destroy" /\ libraries' = << >>
      /\ mapped' = mapped \ Unmapped
      /\ instanceOf' = [o \in Owners |-> IF o \in Unmapped THEN o ELSE instanceOf[o]]
      /\ plugins' = plugins /\ plugins = << >>
      BY DEF UnloadAll, IInv, SessionInv
<1>2. Unmapped \subseteq Libraries /\ Host \notin Unmapped
      BY HostIsOwner DEF IInv, TypeOK, Unmapped
<1>3. MapInv'
  <2>1. ToSet(plugins') = {}
        BY <1>1 DEF ToSet
  <2> QED BY <1>1, <1>2, <2>1, HostIsOwner DEF LoadedInv, MapInv
<1>4. FreshInv' /\ LoadInv'
      BY <1>1 DEF FreshInv, LoadInv, Loading, Unmapped
<1> QED BY <1>3, <1>4 DEF LoadedInv

LEMMA StepLoads == ASSUME IInv, IInv', LoadedInv, [Next]_vars PROVE LoadedInv'
<1>1. CASE LoadPath \/ NextPath \/ Loaded \/ KeepInProgramContext \/ EndSession
           \/ DestroyProgramContext
  <2>1. /\ UNCHANGED << shared, tables, maps, libraries, mapped >>
        /\ phase' \in Loading => phase \in Loading \ {"register"}
        /\ phase' \in {"destroy", "idle"} => phase \in {"destroy", "idle"}
        BY <1>1 DEF LoadPath, NextPath, Loaded, KeepInProgramContext, EndSession,
           DestroyProgramContext, Throw, memory, work, Loading
  <2> QED BY <2>1, QuietLoads
<1>2. CASE UNCHANGED vars
  <2> USE <1>2 DEF LoadedInv, vars, tables, maps, memory, work
  <2>1. MapInv'
        BY DEF MapInv
  <2>2. FreshInv'
        BY DEF FreshInv, Listed, Converted, Instance
  <2>3. LoadInv'
        BY DEF LoadInv
  <2> QED BY <2>1, <2>2, <2>3
<1> QED BY <1>1, <1>2, SnapshotLoads, OpenLoads, CallLoads, UnregisterLoads, RestoreLoads,
           UnloadLoads DEF Next

(* The invariant of loading.                                               *)
THEOREM LoadingInvariance == Spec => []LoadedInv
<1>1. Init => LoadedInv
      BY InitLoads
<1>2. IInv /\ IInv' /\ LoadedInv /\ [Next]_vars => LoadedInv'
      BY StepLoads
<1> QED BY <1>1, <1>2, SessionInvariance, PTL DEF Spec

(* Once a load list is through, what its libraries define is within reach. *)
THEOREM WhatIsLoadedIsVisible == Spec => []LoadedIsVisible
<1>1. IInv /\ LoadedInv => LoadedIsVisible
  <2> SUFFICES ASSUME IInv, LoadedInv, phase = "running",
                      NEW l \in ToSet(libraries) \ Resident, l \notin Skewed \/ shared
               PROVE  /\ \A at \in Defines[l] : \E e \in Visible : e.at = at /\ e.owner # Host
                      /\ \A at \in Converts[l] : \E e \in GetRegisteredParameters :
                              e.at = at /\ e.owner # Host
      BY DEF LoadedIsVisible
  <2>1. phase \in Loading /\ l \in mapped \ Resident
        BY DEF Loading, IInv, OwnerInv
  <2>2. Listed(registry[Instance(l)], Defines[l]) /\ Listed(customParameters[Instance(l)], Converts[l])
        BY <2>1 DEF LoadedInv, FreshInv
  <2>3. Instance(l) = Host \/ Instance(l) \in ToSet(plugins)
        BY <2>1 DEF LoadedInv, LoadInv, Instance
  <2>4. plugins \in Seq(Libraries)
        BY DEF IInv, TypeOK
  <2>5. registry[Instance(l)] \subseteq Visible
        BY <2>3, <2>4, VisibleIs
  <2>6. customParameters[Instance(l)] \subseteq GetRegisteredParameters
        BY <2>3 DEF GetRegisteredParameters
  <2> QED BY <2>2, <2>5, <2>6 DEF Listed
<1> QED BY <1>1, SessionInvariance, LoadingInvariance, PTL

(* While the features run, no visible code lacks a converter.              *)
THEOREM WhatIsVisibleConverts == Spec => []VisibleStepsConvert
<1>1. IInv /\ LoadedInv => VisibleStepsConvert
  <2> SUFFICES ASSUME IInv, LoadedInv, phase = "running", NEW e \in Visible,
                      NEW p \in GetRegisteredParameters, p.owner \notin Resident
               PROVE  \E c \in converterMap[Instance(instanceOf[e.owner])] : c.at = p.at
      BY DEF VisibleStepsConvert
  <2>1. phase \in Loading /\ plugins \in Seq(Libraries) /\ ToSet(plugins) \subseteq mapped
        /\ mapped \subseteq Libraries
        BY DEF Loading, IInv, OwnerInv, TypeOK
  <2>2. Instance(instanceOf[e.owner]) = Host
    <3>1. CASE shared
          BY <3>1 DEF Instance
    <3>2. CASE ~shared
      <4>1. e \in OwnDefinitions(Host) \/ \E l \in ToSet(plugins) : e \in OwnDefinitions(l)
            BY <2>1, <3>2, VisibleIs DEF IInv, OwnerInv, ListInv
      <4>2. e.owner = Host \/ e.owner \in ToSet(plugins)
            BY <2>1, <4>1, Owned, HostIsOwner
      <4> QED BY <4>2, <3>2 DEF LoadedInv, MapInv, Instance
    <3> QED BY <3>1, <3>2
  <2>3. CASE p \in staticCustomParameters \union customParameters[Host]
        BY <2>1, <2>2, <2>3 DEF LoadedInv, LoadInv
  <2>4. CASE \E l \in ToSet(plugins) : p \in customParameters[l]
    <3>1. PICK l \in ToSet(plugins) : p \in customParameters[l]
          BY <2>4
    <3>2. p \in OwnParameters(l) /\ l \in Owners
          BY <2>1, <3>1, HostIsOwner DEF IInv, OwnerInv
    <3>3. p.owner = l /\ p.at \in Converts[l]
          BY <3>2 DEF OwnParameters
    <3>4. Converted(converterMap[Instance(instanceOf[l])], Converts[l])
          BY <2>1, <3>3 DEF LoadedInv, FreshInv
    <3>5. Instance(instanceOf[l]) = Host
          BY DEF LoadedInv, MapInv, Instance
    <3> QED BY <2>2, <3>3, <3>4, <3>5 DEF Converted
  <2> QED BY <2>3, <2>4 DEF GetRegisteredParameters
<1> QED BY <1>1, SessionInvariance, LoadingInvariance, PTL
=============================================================================
