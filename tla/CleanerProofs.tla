---------------------------- MODULE CleanerProofs ----------------------------
(***************************************************************************)
(* Theorems about JunkCleaner: what a sweep removes of any tree of files,  *)
(* whatever other programs put into it while the sweep is at work, and     *)
(* what it leaves when nobody interferes.                                  *)
(***************************************************************************)
EXTENDS JunkCleaner, FiniteSetTheorems, SequenceTheorems, TLAPS

Entries == [path : Paths, kind : {"dir", "file", "link"}]
WalkSet == [pass : {"files", "dirs"}, root : Wiped] \cup [pass : {"logs"}, root : Scanned]

\* A path that a walk may come to: its root, or one below it.
Within(p) == p = Walks[walk].root \/ Walks[walk].root \in Below[p]

\* A walk has only such paths to visit and to list, as long as no link has been
\* put in its way.
AgendaInv ==
    /\ agenda # <<>> \/ listing # Outside => walk \in DOMAIN Walks
    /\ ~relinked => /\ \A i \in 1..Len(agenda) : Within(agenda[i].path)
                    /\ listing # Outside => Within(listing)

\* Until then none of the directories it passes through is a link.
LinkInv ==
    /\ \A d \in AboveRoots \cap Paths : tree[d] # "link"
    /\ ~relinked => \A d \in Paths : Treads(d) => tree[d] # "link"
    /\ fileEvents = 0 => ~relinked

CleanerInv == CleanerTypeOK /\ AgendaInv /\ LinkInv /\ OnlyJunk

-----------------------------------------------------------------------------
(* Below is well defined, whatever the parents are *)

Locations == Paths \cup {Outside}

\* The least solution of its equation: what every set has that contains the
\* parent of the path and with each path its parent.
UpFrom(p) ==
    {q \in Locations : \A S \in SUBSET Locations :
        Parent[p] \in S /\ (\A r \in S \ {Outside} : Parent[r] \in S) => q \in S}

Ancestors == [p \in Locations |-> IF p = Outside THEN {} ELSE UpFrom(p)]

LEMMA AncestorsStep ==
    ASSUME NEW p \in Paths
    PROVE  UpFrom(p) = {Parent[p]} \cup Ancestors[Parent[p]]
  <1>1. Parent[p] \in Locations /\ \A q \in Paths : Parent[q] \in Locations
    BY CleanerAssumption DEF CleanerAssumption, Locations
  <1>2. Parent[p] \in UpFrom(p)
    BY <1>1 DEF UpFrom
  <1>3. CASE Parent[p] = Outside
    <2>1. \A r \in {Outside} \ {Outside} : Parent[r] \in {Outside}
      OBVIOUS
    <2>2. {Outside} \in SUBSET Locations /\ Parent[p] \in {Outside}
      BY <1>3 DEF Locations
    <2>3. UpFrom(p) \subseteq {Outside}
      BY <2>1, <2>2 DEF UpFrom
    <2>4. Ancestors[Parent[p]] = {}
      BY <1>1, <1>3 DEF Ancestors
    <2>5. QED
      BY <1>2, <1>3, <2>3, <2>4
  <1>4. CASE Parent[p] # Outside
    <2> DEFINE d == Parent[p]
    <2>1. Ancestors[d] = UpFrom(d) /\ d \in Paths /\ Parent[d] \in Locations
      BY <1>1, <1>4 DEF Ancestors, Locations
    <2>2. UpFrom(d) \subseteq UpFrom(p)
      <3>1. SUFFICES ASSUME NEW q \in UpFrom(d), NEW S \in SUBSET Locations,
                            d \in S, \A r \in S \ {Outside} : Parent[r] \in S
                     PROVE  q \in S
        BY DEF UpFrom
      <3>2. Parent[d] \in S
        BY <1>4, <3>1
      <3>3. QED
        BY <3>1, <3>2 DEF UpFrom
    <2>3. UpFrom(p) \subseteq {d} \cup UpFrom(d)
      <3> DEFINE S == {d} \cup UpFrom(d)
      <3>1. S \in SUBSET Locations
        BY <1>1 DEF UpFrom
      <3>2. Parent[d] \in UpFrom(d)
        BY <2>1 DEF UpFrom
      <3>3. ASSUME NEW r \in UpFrom(d), r # Outside
            PROVE  Parent[r] \in UpFrom(d)
        <4>1. r \in Paths /\ Parent[r] \in Locations
          BY <1>1, <3>3 DEF UpFrom, Locations
        <4>2. QED
          BY <3>3, <4>1 DEF UpFrom
      <3>4. \A r \in S \ {Outside} : Parent[r] \in S
        BY <3>2, <3>3
      <3>5. d \in S
        OBVIOUS
      <3> HIDE DEF S
      <3>6. UpFrom(p) \subseteq S
        BY <3>1, <3>4, <3>5 DEF UpFrom
      <3>7. QED
        BY <3>6 DEF S
    <2>4. QED
      BY <1>2, <2>1, <2>2, <2>3
  <1>5. QED
    BY <1>3, <1>4

LEMMA BelowIs ==
    Below = [q \in Locations |-> IF q = Outside THEN {} ELSE {Parent[q]} \cup Below[Parent[q]]]
  <1> DEFINE Step(f) ==
                [q \in Locations |-> IF q = Outside THEN {} ELSE {Parent[q]} \cup f[Parent[q]]]
  <1>1. \A q \in Locations : q # Outside => UpFrom(q) = {Parent[q]} \cup Ancestors[Parent[q]]
    BY AncestorsStep DEF Locations
  <1>2. Ancestors = Step(Ancestors)
    BY <1>1 DEF Ancestors
  <1>3. Below = CHOOSE f : f = Step(f)
    BY DEF Below, Locations
  <1>4. Below = Step(Below)
    <2> HIDE DEF Step
    <2>1. QED
      BY <1>2, <1>3
  <1> HIDE DEF Below
  <1>5. QED
    BY <1>4

LEMMA BelowChild ==
    ASSUME NEW p \in Paths
    PROVE  Below[p] = {Parent[p]} \cup Below[Parent[p]]
  <1>1. p \in Locations /\ p # Outside
    BY CleanerAssumption DEF CleanerAssumption, Locations
  <1> HIDE DEF Below
  <1>2. QED
    BY <1>1, BelowIs

LEMMA BelowTop == Below[Outside] = {}
  <1>1. Outside \in Locations
    BY DEF Locations
  <1> HIDE DEF Below
  <1>2. QED
    BY <1>1, BelowIs

LEMMA BelowType ==
    ASSUME NEW p \in Locations
    PROVE  Below[p] \subseteq Locations
  <1> DEFINE S == {q \in Paths : ~(Below[q] \subseteq Locations)}
  <1>1. S = {}
    <2>1. SUFFICES ASSUME S # {} PROVE FALSE
      OBVIOUS
    <2>2. PICK q \in S : Parent[q] \notin S
      BY <2>1, TreeAssumption DEF TreeAssumption
    <2>3. Parent[q] \in Locations
      BY <2>2, CleanerAssumption DEF CleanerAssumption, Locations
    <2>4. Below[Parent[q]] \subseteq Locations
      BY <2>2, <2>3, BelowTop DEF Locations
    <2>5. QED
      BY <2>2, <2>3, <2>4, BelowChild
  <1>2. QED
    BY <1>1, BelowTop DEF Locations

-----------------------------------------------------------------------------
(* The walks of a sweep, and what a listing is *)

LEMMA WalksType ==
    /\ Walks \in Seq(WalkSet)
    /\ Len(Walks) \in Nat /\ DOMAIN Walks = 1..Len(Walks)
    /\ \A i \in DOMAIN Walks : Walks[i] \in WalkSet
  <1> DEFINE s1 == Wipe(UserTemp)
             s2 == Wipe(SystemTemp)
             s3 == Wipe(PrefetchDir)
             s4 == Wipe(CrashDumps)
             s5 == ScanLogs(UserTemp)
             s6 == ScanLogs(LocalAppData)
  <1>1. s1 \in Seq(WalkSet) /\ s2 \in Seq(WalkSet) /\ s3 \in Seq(WalkSet)
          /\ s4 \in Seq(WalkSet)
    BY DEF Wipe, WalkSet, Wiped
  <1>2. s5 \in Seq(WalkSet) /\ s6 \in Seq(WalkSet)
    BY DEF ScanLogs, WalkSet, Scanned
  <1>3. Walks = s1 \o s2 \o s3 \o s4 \o s5 \o s6
    BY DEF Walks
  <1> HIDE DEF s1, s2, s3, s4, s5, s6
  <1>4. s1 \o s2 \in Seq(WalkSet)
    BY <1>1, ConcatProperties
  <1>5. s1 \o s2 \o s3 \in Seq(WalkSet)
    BY <1>1, <1>4, ConcatProperties
  <1>6. s1 \o s2 \o s3 \o s4 \in Seq(WalkSet)
    BY <1>1, <1>5, ConcatProperties
  <1>7. s1 \o s2 \o s3 \o s4 \o s5 \in Seq(WalkSet)
    BY <1>2, <1>6, ConcatProperties
  <1>8. Walks \in Seq(WalkSet)
    BY <1>2, <1>3, <1>7, ConcatProperties
  <1>9. QED
    BY <1>8, LenProperties, ElementOfSeq

\* A walk starts at a path of the tree; what it removes of logs is never its root.
LEMMA WalkRoots ==
    ASSUME NEW w \in WalkSet
    PROVE  /\ w.root \in Paths
           /\ w.pass \in {"files", "dirs"} => w.root \in Wiped
           /\ w.pass = "logs" => w.root \in Scanned /\ w.root \notin LogNamed
           /\ w.pass \in {"files", "dirs", "logs"}
  BY CleanerAssumption, ScannedAssumption
  DEF CleanerAssumption, ScannedAssumption, WalkSet, Wiped, Scanned

LEMMA PathsFinite == IsFiniteSet(Paths)
  <1>1. DOMAIN Order = 1..Len(Order) /\ Len(Order) \in Nat
    BY CleanerAssumption, LenProperties DEF CleanerAssumption
  <1>2. IsFiniteSet(DOMAIN Order)
    BY <1>1, FS_Interval
  <1>3. Order \in Surjection(DOMAIN Order, Paths)
    <2>1. Order \in [DOMAIN Order -> Paths]
      BY <1>1, CleanerAssumption, LenProperties DEF CleanerAssumption
    <2>2. \A p \in Paths : \E i \in DOMAIN Order : Order[i] = p
      BY DEF Paths
    <2>3. QED
      BY <2>1, <2>2 DEF Surjection
  <1>4. QED
    BY <1>2, <1>3, FS_Surjection

\* A listing is a sequence of what there is in the directory.
LEMMA ListingsType ==
    ASSUME NEW t, NEW dir, NEW here \in Listings(t, dir)
    PROVE  /\ here \in Seq(Children(t, dir))
           /\ Len(here) \in Nat /\ DOMAIN here = 1..Len(here)
           /\ \A i \in DOMAIN here : here[i] \in Children(t, dir)
  <1>1. Children(t, dir) \in SUBSET Paths
    BY DEF Children
  <1>2. Cardinality(Children(t, dir)) \in Nat
    BY <1>1, PathsFinite, FS_Subset, FS_CardinalityType
  <1>3. here \in [1..Cardinality(Children(t, dir)) -> Children(t, dir)]
    BY DEF Listings
  <1> HIDE DEF Listings
  <1>4. here \in Seq(Children(t, dir))
    BY <1>2, <1>3, SeqDef
  <1>5. QED
    BY <1>4, LenProperties, ElementOfSeq

\* Who is in a directory that a walk may come to is a path it may come to.
LEMMA ChildWithin ==
    ASSUME NEW d, Within(d), NEW p \in Paths, Parent[p] = d
    PROVE  Within(p)
  BY BelowChild DEF Within

\* A walk has only such paths to visit.
LEMMA AgendaEntry ==
    ASSUME CleanerInv, NEW i \in 1..Len(agenda)
    PROVE  /\ agenda[i] \in Entries /\ walk \in DOMAIN Walks
           /\ ~relinked => Within(agenda[i].path)
  <1>1. agenda \in Seq(Entries) /\ Len(agenda) \in Nat
    BY LenProperties DEF CleanerInv, CleanerTypeOK, Entries
  <1>2. agenda # <<>>
    BY <1>1, EmptySeq
  <1>3. QED
    BY <1>1, <1>2, ElementOfSeq DEF CleanerInv, AgendaInv

\* Where the walk goes, it comes to what is of that name.
LEMMA NoDetour ==
    ASSUME CleanerInv, ~relinked, NEW p \in Paths,
           p = listing \/ \E i \in 1..Len(agenda) : p = agenda[i].path
    PROVE  Leads(p) = {p} /\ (p = listing => tree[p] # "link")
  <1>1. DOMAIN agenda = 1..Len(agenda)
    BY LenProperties DEF CleanerInv, CleanerTypeOK
  <1>2. (\A d \in Below[p] : Treads(d)) /\ (p = listing => Treads(p))
    BY <1>1 DEF Treads
  <1>3. Below[p] \ {Outside} \subseteq Paths
    BY BelowType DEF Locations
  <1>4. QED
    BY <1>2, <1>3 DEF CleanerInv, LinkInv, Leads

-----------------------------------------------------------------------------
(* The steps *)

LEMMA CleanerStart == CleanerInit => CleanerInv
  <1>1. Len(Walks) \in Nat
    BY WalksType
  <1> SUFFICES ASSUME CleanerInit PROVE CleanerInv
    OBVIOUS
  <1>2. CleanerTypeOK
    <2>1. tree \in [Paths -> Kinds] /\ before \in [Paths -> Kinds] /\ lockedPaths \subseteq Paths
      BY CleanerAssumption DEF CleanerInit, CleanerAssumption
    <2>2. fileEvents \in 0..MaxFileEvents /\ walk \in 0..(Len(Walks) + 1)
      BY <1>1, CleanerAssumption DEF CleanerInit, CleanerAssumption
    <2>3. agenda \in Seq(Entries)
      BY EmptySeq DEF CleanerInit
    <2>4. QED
      BY <2>1, <2>2, <2>3 DEF CleanerInit, CleanerTypeOK, Entries
  <1>3. Len(agenda) = 0
    BY DEF CleanerInit
  <1>4. AgendaInv /\ OnlyJunk
    BY <1>3 DEF CleanerInit, AgendaInv, OnlyJunk
  <1>5. LinkInv
    <2>1. DOMAIN agenda = {} /\ Below[listing] = {} /\ listing \notin Paths
      BY <1>3, BelowTop, CleanerAssumption DEF CleanerInit, CleanerAssumption
    <2>2. \A d \in Paths : ~Treads(d)
      BY <2>1 DEF Treads
    <2>3. QED
      BY <2>2, InsideAssumption DEF CleanerInit, LinkInv, InsideAssumption
  <1>6. QED
    BY <1>2, <1>4, <1>5 DEF CleanerInv

LEMMA CleanerIdle ==
    ASSUME CleanerInv, UNCHANGED <<walk, agenda, listing, removed>>, relinked => relinked'
    PROVE  AgendaInv' /\ OnlyJunk'
  BY DEF CleanerInv, AgendaInv, OnlyJunk, Within

LEMMA OthersStep ==
    ASSUME CleanerInv, NEW p \in Paths, Creates(p) \/ Deletes(p) \/ OpensOrCloses(p)
    PROVE  CleanerInv'
  <1> USE DEF CleanerInv, CleanerTypeOK, FileEvent, Kinds
  <1>1. AgendaInv' /\ OnlyJunk'
    BY CleanerIdle DEF Creates, Deletes, OpensOrCloses
  <1>2. (fileEvents \in 0..MaxFileEvents)'
    BY CleanerAssumption DEF Creates, Deletes, OpensOrCloses, CleanerAssumption
  <1>3. (tree \in [Paths -> Kinds] /\ lockedPaths \subseteq Paths /\ relinked \in BOOLEAN)'
    BY DEF Creates, Deletes, OpensOrCloses
  <1>4. LinkInv'
    <2>1. (\A d : Treads(d)' <=> Treads(d)) /\ AboveRoots' = AboveRoots
      BY DEF Creates, Deletes, OpensOrCloses, Treads, AboveRoots
    <2>2. fileEvents' # 0
      BY CleanerAssumption DEF Creates, Deletes, OpensOrCloses, CleanerAssumption
    <2>3. ASSUME NEW d \in Paths, tree'[d] = "link", tree[d] # "link"
          PROVE  d \notin AboveRoots /\ (Treads(d) => relinked')
      BY <2>3 DEF Creates, Deletes, OpensOrCloses
    <2>4. relinked => relinked'
      BY DEF Creates, Deletes, OpensOrCloses
    <2>5. QED
      BY <2>1, <2>2, <2>3, <2>4 DEF LinkInv
  <1>5. QED
    BY <1>1, <1>2, <1>3, <1>4 DEF Creates, Deletes, OpensOrCloses

LEMMA OneEntry ==
    ASSUME NEW entry \in Entries
    PROVE  <<entry>> \in Seq(Entries) /\ Len(<<entry>>) = 1 /\ <<entry>>[1] = entry
  OBVIOUS

LEMMA StartWalkStep ==
    ASSUME CleanerInv, StartWalk
    PROVE  CleanerInv'
  <1> USE DEF CleanerInv, CleanerTypeOK, StartWalk
  <1>1. walk' \in 0..(Len(Walks) + 1)
    BY WalksType
  <1>2. CASE walk' \in DOMAIN Walks /\ tree[Walks[walk'].root] # "none"
    <2> DEFINE first == [path |-> Walks[walk'].root, kind |-> tree[Walks[walk'].root]]
    <2>1. Walks[walk'].root \in Paths
      BY <1>2, WalksType, WalkRoots
    <2>2. first \in Entries /\ first.path = Walks[walk'].root
      BY <1>2, <2>1 DEF Entries, Kinds
    <2>3. agenda' = <<first>>
      BY <1>2
    <2> HIDE DEF first
    <2>4. agenda' \in Seq(Entries) /\ Len(agenda') = 1 /\ agenda'[1] = first
      BY <2>2, <2>3, OneEntry
    <2>5. AgendaInv'
      BY <1>2, <2>2, <2>4 DEF AgendaInv, Within
    <2>6. LinkInv'
      <3>1. Walks[walk'].root \in Wiped \cup Scanned
        BY <1>2, WalksType, WalkRoots
      <3>2. Below[first.path] \subseteq AboveRoots
        BY <2>2, <3>1 DEF AboveRoots
      <3>3. first.kind = "dir" => tree[first.path] = "dir"
        BY <2>2 DEF first
      <3>4. DOMAIN agenda' = {1} /\ agenda'[1] = first
        BY <2>4, LenProperties
      <3>5. listing' = Outside /\ Below[listing'] = {} /\ Outside \notin Paths
        BY BelowTop, CleanerAssumption DEF CleanerAssumption
      <3>6. \A d \in Paths :
                Treads(d)' => d \in AboveRoots \/ (d = first.path /\ first.kind = "dir")
        BY <3>2, <3>4, <3>5 DEF Treads
      <3>7. AboveRoots' = AboveRoots
        BY DEF AboveRoots
      <3>8. QED
        BY <3>3, <3>6, <3>7 DEF LinkInv
    <2>7. QED
      BY <1>1, <2>4, <2>5, <2>6 DEF OnlyJunk, Entries
  <1>3. CASE ~(walk' \in DOMAIN Walks /\ tree[Walks[walk'].root] # "none")
    <2>1. agenda' = <<>> /\ Len(agenda') = 0
      BY <1>3
    <2>2. AgendaInv'
      BY <2>1 DEF AgendaInv
    <2>3. LinkInv'
      <3>1. DOMAIN agenda' = {} /\ Below[listing'] = {} /\ listing' \notin Paths
        BY <2>1, BelowTop, CleanerAssumption DEF CleanerAssumption
      <3>2. (\A d \in Paths : ~Treads(d)') /\ AboveRoots' = AboveRoots
        BY <3>1 DEF Treads, AboveRoots
      <3>3. QED
        BY <3>2 DEF LinkInv
    <2>4. QED
      BY <1>1, <2>1, <2>2, <2>3 DEF OnlyJunk
  <1>4. QED
    BY <1>2, <1>3

\* What a visit removes is junk.
LEMMA TargetIsJunk ==
    ASSUME NEW w \in WalkSet, NEW entry \in Entries, Targets(w, entry),
           entry.path = w.root \/ w.root \in Below[entry.path]
    PROVE  Junk(entry.path)
  <1> USE DEF Junk
  <1>1. CASE w.pass \in {"files", "dirs"}
    <2>1. w.root \in Wiped /\ w.root \in Below[entry.path]
      BY <1>1, WalkRoots DEF Targets
    <2>2. QED
      BY <2>1
  <1>2. CASE w.pass = "logs"
    <2>1. entry.path \in LogNamed /\ w.root \in Scanned /\ w.root \notin LogNamed
      BY <1>2, WalkRoots DEF Targets
    <2>2. QED
      BY <2>1
  <1>3. QED
    BY <1>1, <1>2, WalkRoots

LEMMA VisitStep ==
    ASSUME CleanerInv, Visit
    PROVE  CleanerInv'
  <1>1. PICK there \in Leads(Head(agenda).path) :
            LET entry == Head(agenda)
                hit == Targets(Walks[walk], entry) /\ Removable(there)
            IN  /\ tree' = IF hit THEN [tree EXCEPT ![there] = "none"] ELSE tree
                /\ removed' = IF hit THEN removed \cup {there} ELSE removed
                /\ listing' = IF entry.kind = "dir" THEN entry.path ELSE Outside
    BY DEF Visit
  <1> DEFINE entry == Head(agenda)
             hit == Targets(Walks[walk], entry) /\ Removable(there)
  <1>2. agenda \in Seq(Entries) /\ agenda # <<>> /\ Len(agenda) \in Nat \ {0}
    BY EmptySeq DEF CleanerInv, CleanerTypeOK, Visit, Entries
  <1>3. entry = agenda[1] /\ 1 \in 1..Len(agenda)
    BY <1>2
  <1>4. /\ entry \in Entries /\ entry.path \in Paths /\ walk \in DOMAIN Walks
        /\ Walks[walk] \in WalkSet /\ (~relinked => Within(entry.path))
    BY <1>3, AgendaEntry, WalksType DEF Entries
  <1>5. /\ agenda' = Tail(agenda) /\ agenda' \in Seq(Entries)
        /\ Len(agenda') = Len(agenda) - 1 /\ Len(agenda') \in Nat
        /\ \A i \in 1..Len(agenda') : agenda'[i] = agenda[i + 1] /\ i + 1 \in 1..Len(agenda)
    BY <1>2, HeadTailProperties DEF Visit
  <1>6. /\ tree' = (IF hit THEN [tree EXCEPT ![there] = "none"] ELSE tree)
        /\ removed' = (IF hit THEN removed \cup {there} ELSE removed)
        /\ listing' = (IF entry.kind = "dir" THEN entry.path ELSE Outside)
        /\ UNCHANGED <<lockedPaths, walk, before, fileEvents, relinked>>
    BY <1>1 DEF Visit
  <1>7. there \in Paths /\ (~relinked => there = entry.path)
    BY <1>1, <1>3, <1>4, NoDetour DEF Leads
  <1>8. ~relinked /\ hit => Junk(there)
    BY <1>4, <1>7, TargetIsJunk DEF Within
  <1> HIDE DEF entry, hit
  <1>9. CleanerTypeOK'
    BY <1>4, <1>5, <1>6, <1>7 DEF CleanerInv, CleanerTypeOK, Kinds, Entries
  <1>10. AgendaInv'
    <2>1. ~relinked => \A i \in 1..Len(agenda') : Within(agenda'[i].path)
      BY <1>5, AgendaEntry
    <2>2. QED
      BY <1>4, <1>6, <2>1 DEF AgendaInv, Within
  <1>11. LinkInv'
    <2>1. DOMAIN agenda = 1..Len(agenda) /\ DOMAIN agenda' = 1..Len(agenda')
      BY <1>2, <1>5, LenProperties
    <2>2. \A i \in DOMAIN agenda' : agenda'[i] = agenda[i + 1] /\ i + 1 \in DOMAIN agenda
      BY <1>5, <2>1
    <2>3. listing' # Outside => Treads(listing') /\ \A d \in Below[listing'] : Treads(d)
      <3>1. listing' # Outside => Treads(listing') /\ listing' = entry.path
        BY <1>3, <1>6, <2>1 DEF Treads
      <3>2. 1 \in DOMAIN agenda /\ entry = agenda[1]
        BY <1>3, <2>1
      <3>3. \A d \in Below[entry.path] : Treads(d)
        BY <3>2 DEF Treads
      <3>4. QED
        BY <3>1, <3>3
    <2>4. Below[Outside] = {} /\ Outside \notin Paths
      BY BelowTop, CleanerAssumption DEF CleanerAssumption
    <2>5. ASSUME NEW d \in Paths, Treads(d)'
          PROVE  Treads(d)
      <3>2. CASE d = listing' \/ d \in Below[listing']
        BY <2>3, <2>4, <2>5, <3>2
      <3>3. CASE \E i \in DOMAIN agenda' :
                    \/ d \in Below[agenda'[i].path]
                    \/ d = agenda'[i].path /\ agenda'[i].kind = "dir"
        BY <2>2, <3>3 DEF Treads
      <3>4. QED
        BY <2>5, <3>2, <3>3 DEF Treads
    <2>6. \A d \in Paths : tree'[d] = "link" => tree[d] = "link"
      BY <1>6, <1>7 DEF CleanerInv, CleanerTypeOK
    <2>7. AboveRoots' = AboveRoots
      BY DEF AboveRoots
    <2>8. QED
      BY <1>6, <2>5, <2>6, <2>7 DEF CleanerInv, LinkInv
  <1>12. OnlyJunk'
    BY <1>6, <1>8 DEF CleanerInv, OnlyJunk
  <1>13. QED
    BY <1>9, <1>10, <1>11, <1>12 DEF CleanerInv

LEMMA ListStep ==
    ASSUME CleanerInv, List
    PROVE  CleanerInv'
  <1>1. PICK there \in Leads(listing) :
            \E here \in Listings(tree, IF tree[there] = "link" THEN Elsewhere ELSE there) :
                agenda' = [i \in DOMAIN here |-> [path |-> here[i], kind |-> tree[here[i]]]]
                              \o agenda
    BY DEF List
  <1>2. PICK dir : dir = IF tree[there] = "link" THEN Elsewhere ELSE there
    OBVIOUS
  <1>3. PICK here \in Listings(tree, dir) :
            agenda' = [i \in DOMAIN here |-> [path |-> here[i], kind |-> tree[here[i]]]] \o agenda
    BY <1>1, <1>2
  <1> DEFINE found == [i \in DOMAIN here |-> [path |-> here[i], kind |-> tree[here[i]]]]
  <1>4. listing \in Paths /\ walk \in DOMAIN Walks /\ (~relinked => Within(listing))
    BY DEF List, CleanerInv, CleanerTypeOK, AgendaInv
  <1>5. ~relinked => dir = listing
    BY <1>1, <1>2, <1>4, NoDetour
  <1>6. /\ Len(here) \in Nat /\ DOMAIN here = 1..Len(here)
        /\ \A i \in DOMAIN here : here[i] \in Children(tree, dir)
    BY <1>3, ListingsType
  <1>7. \A i \in DOMAIN here :
            /\ here[i] \in Paths /\ Parent[here[i]] = dir
            /\ found[i] \in Entries /\ found[i].path = here[i] /\ found[i].kind = tree[here[i]]
    BY <1>6 DEF Children, CleanerInv, CleanerTypeOK, Entries, Kinds
  <1>8. found \in Seq(Entries) /\ Len(found) = Len(here)
    <2>1. found \in [1..Len(here) -> Entries]
      BY <1>6, <1>7
    <2>2. QED
      BY <1>6, <2>1, SeqDef
  <1>9. ~relinked => \A i \in 1..Len(found) : Within(found[i].path)
    BY <1>4, <1>5, <1>6, <1>7, <1>8, ChildWithin
  <1>10. agenda \in Seq(Entries) /\ Len(agenda) \in Nat
    BY LenProperties DEF CleanerInv, CleanerTypeOK, Entries
  <1>11. agenda' = found \o agenda
    BY <1>3
  <1>12. listing' = Outside /\ UNCHANGED <<tree, lockedPaths, walk, before, removed, relinked>>
    BY DEF List
  <1> HIDE DEF found
  <1>13. /\ agenda' \in Seq(Entries) /\ Len(agenda') \in Nat
         /\ Len(agenda') = Len(found) + Len(agenda)
         /\ \A i \in 1..Len(found) + Len(agenda) :
               agenda'[i] = IF i <= Len(found) THEN found[i] ELSE agenda[i - Len(found)]
    <2>1. /\ agenda' \in Seq(Entries) /\ Len(agenda') = Len(found) + Len(agenda)
          /\ \A i \in 1..Len(found) + Len(agenda) :
                agenda'[i] = IF i <= Len(found) THEN found[i] ELSE agenda[i - Len(found)]
      BY <1>8, <1>10, <1>11, ConcatProperties
    <2>2. Len(agenda') \in Nat
      BY <2>1, LenProperties
    <2>3. QED
      BY <2>1, <2>2
  <1>14. ASSUME NEW i \in 1..Len(agenda')
         PROVE  \/ i \in 1..Len(found) /\ agenda'[i] = found[i]
                \/ \E j \in 1..Len(agenda) : agenda'[i] = agenda[j]
    <2>1. CASE i <= Len(found)
      BY <1>6, <1>8, <1>10, <1>13, <2>1
    <2>2. CASE i > Len(found)
      <3>1. i - Len(found) \in 1..Len(agenda) /\ agenda'[i] = agenda[i - Len(found)]
        BY <1>6, <1>8, <1>10, <1>13, <2>2
      <3>2. QED
        BY <3>1
    <2>3. QED
      BY <1>6, <1>8, <1>10, <1>13, <2>1, <2>2
  <1>15. CleanerTypeOK'
    BY <1>13 DEF List, CleanerInv, CleanerTypeOK, Entries
  <1>16. AgendaInv'
    <2>1. ~relinked => \A i \in 1..Len(agenda') : Within(agenda'[i].path)
      BY <1>9, <1>14, AgendaEntry
    <2>2. QED
      BY <1>4, <1>12, <2>1 DEF AgendaInv, Within
  <1>17. LinkInv'
    <2>1. ASSUME ~relinked, NEW d \in Paths, Treads(d)'
          PROVE  tree[d] # "link"
      <3>1. DOMAIN agenda = 1..Len(agenda) /\ DOMAIN agenda' = 1..Len(agenda')
        BY <1>10, <1>13, LenProperties
      <3>2. Below[Outside] = {} /\ d # Outside
        BY BelowTop, CleanerAssumption DEF CleanerAssumption
      <3>3. PICK i \in 1..Len(agenda') :
                d \in Below[agenda'[i].path] \/ (d = agenda'[i].path /\ agenda'[i].kind = "dir")
        BY <1>12, <2>1, <3>1, <3>2 DEF Treads
      <3>4. CASE i \in 1..Len(found) /\ agenda'[i] = found[i]
        <4>1. CASE d = agenda'[i].path /\ agenda'[i].kind = "dir"
          BY <1>6, <1>7, <1>8, <3>4, <4>1
        <4>2. CASE d \in Below[agenda'[i].path]
          <5>1. d \in {listing} \cup Below[listing]
            BY <1>5, <1>6, <1>7, <1>8, <2>1, <3>4, <4>2, BelowChild
          <5>2. Treads(d)
            BY <5>1 DEF Treads
          <5>3. QED
            BY <2>1, <5>2 DEF CleanerInv, LinkInv
        <4>3. QED
          BY <3>3, <4>1, <4>2
      <3>5. CASE \E j \in 1..Len(agenda) : agenda'[i] = agenda[j]
        <4>1. PICK j \in DOMAIN agenda : agenda'[i] = agenda[j]
          BY <3>1, <3>5
        <4>2. Treads(d)
          BY <3>3, <4>1 DEF Treads
        <4>3. QED
          BY <2>1, <4>2 DEF CleanerInv, LinkInv
      <3>6. QED
        BY <1>14, <3>4, <3>5
    <2>2. AboveRoots' = AboveRoots /\ fileEvents' = fileEvents
      BY DEF AboveRoots, List
    <2>3. QED
      BY <1>12, <2>1, <2>2 DEF CleanerInv, LinkInv
  <1>18. OnlyJunk'
    BY <1>12 DEF CleanerInv, OnlyJunk
  <1>19. QED
    BY <1>15, <1>16, <1>17, <1>18 DEF CleanerInv

LEMMA CleanerInductive == CleanerInv /\ [CleanerNext]_cleanerVars => CleanerInv'
  <1> SUFFICES ASSUME CleanerInv, [CleanerNext]_cleanerVars PROVE CleanerInv'
    OBVIOUS
  <1>1. CASE \E p \in Paths : Creates(p) \/ Deletes(p) \/ OpensOrCloses(p)
    BY <1>1, OthersStep
  <1>2. CASE StartWalk
    BY <1>2, StartWalkStep
  <1>3. CASE Visit
    BY <1>3, VisitStep
  <1>4. CASE List
    BY <1>4, ListStep
  <1>5. CASE UNCHANGED cleanerVars
    <2>1. AgendaInv' /\ OnlyJunk'
      BY <1>5, CleanerIdle DEF cleanerVars
    <2>2. CleanerTypeOK' /\ LinkInv'
      BY <1>5 DEF cleanerVars, CleanerInv, CleanerTypeOK, LinkInv, Treads, AboveRoots
    <2>3. QED
      BY <2>1, <2>2 DEF CleanerInv
  <1>6. QED
    BY <1>1, <1>2, <1>3, <1>4, <1>5 DEF CleanerNext

-----------------------------------------------------------------------------
(* A tree of directories *)

LEMMA Acyclic ==
    ASSUME NEW p \in Paths
    PROVE  p \notin Below[p]
  <1> DEFINE S == {q \in Paths : p \in Below[q]}
  <1>1. SUFFICES ASSUME p \in S PROVE FALSE
    OBVIOUS
  <1>2. PICK q \in S : Parent[q] \notin S
    BY <1>1, TreeAssumption DEF TreeAssumption
  <1>3. p = Parent[q]
    <2>1. SUFFICES ASSUME p \in Below[Parent[q]] PROVE FALSE
      BY <1>2, BelowChild
    <2>2. Parent[q] \in Paths
      BY <1>2, <2>1, BelowTop, CleanerAssumption DEF CleanerAssumption
    <2>3. QED
      BY <1>2, <2>1, <2>2
  <1>4. QED
    BY <1>1, <1>2, <1>3

LEMMA OneRoot ==
    ASSUME NEW p \in Paths, NEW r1 \in Wiped, NEW r2 \in Wiped,
           r1 \in Below[p], r2 \in Below[p]
    PROVE  r1 = r2
  <1> DEFINE S == {q \in Paths : r1 \in Below[q] /\ r2 \in Below[q]}
  <1>1. SUFFICES ASSUME r1 # r2, S # {} PROVE FALSE
    OBVIOUS
  <1>2. PICK q \in S : Parent[q] \notin S
    BY <1>1, TreeAssumption DEF TreeAssumption
  <1>3. Below[q] = {Parent[q]} \cup Below[Parent[q]]
    BY <1>2, BelowChild
  <1>4. ~(r1 \in Below[Parent[q]] /\ r2 \in Below[Parent[q]])
    <2>1. Parent[q] \in Paths \cup {Outside}
      BY <1>2, CleanerAssumption DEF CleanerAssumption
    <2>2. QED
      BY <1>2, <2>1, BelowTop
  <1>5. \/ r1 = Parent[q] /\ r2 \in Below[r1]
        \/ r2 = Parent[q] /\ r1 \in Below[r2]
    BY <1>1, <1>2, <1>3, <1>4
  <1>6. QED
    BY <1>5, WipedAssumption DEF WipedAssumption

-----------------------------------------------------------------------------
(* The ten walks *)

LEMMA TenWalks ==
    /\ DOMAIN Walks = 1..10 /\ Len(Walks) = 10
    /\ Walks[1] = [pass |-> "files", root |-> UserTemp]
    /\ Walks[2] = [pass |-> "dirs", root |-> UserTemp]
    /\ Walks[3] = [pass |-> "files", root |-> SystemTemp]
    /\ Walks[4] = [pass |-> "dirs", root |-> SystemTemp]
    /\ Walks[5] = [pass |-> "files", root |-> PrefetchDir]
    /\ Walks[6] = [pass |-> "dirs", root |-> PrefetchDir]
    /\ Walks[7] = [pass |-> "files", root |-> CrashDumps]
    /\ Walks[8] = [pass |-> "dirs", root |-> CrashDumps]
    /\ Walks[9] = [pass |-> "logs", root |-> UserTemp]
    /\ Walks[10] = [pass |-> "logs", root |-> LocalAppData]
  BY DEF Walks, Wipe, ScanLogs

\* Each temporary directory has its two walks, the one for the files before the
\* one for the directories; the logs come last.
LEMMA WalkOrder ==
    /\ \A r \in Wiped : \E i, j \in DOMAIN Walks :
          /\ Walks[i] = [pass |-> "files", root |-> r]
          /\ Walks[j] = [pass |-> "dirs", root |-> r]
    /\ \A i, j \in DOMAIN Walks :
          /\ Walks[i].pass = "files" /\ Walks[j].pass = "dirs" /\ Walks[i].root = Walks[j].root
                => i < j
          /\ Walks[i].pass # "logs" /\ Walks[j].pass = "logs" => i < j
          /\ Walks[i].pass = "dirs" /\ Walks[j].pass = "dirs" /\ Walks[i].root = Walks[j].root
                => i = j
    /\ \A r \in Scanned : \E i \in DOMAIN Walks : Walks[i] = [pass |-> "logs", root |-> r]
  <1>1. \A r \in Wiped : \E i, j \in DOMAIN Walks :
          /\ Walks[i] = [pass |-> "files", root |-> r]
          /\ Walks[j] = [pass |-> "dirs", root |-> r]
    BY TenWalks DEF Wiped
  <1>2. \A r \in Scanned : \E i \in DOMAIN Walks : Walks[i] = [pass |-> "logs", root |-> r]
    BY TenWalks DEF Scanned
  <1>3. ASSUME NEW i \in DOMAIN Walks
        PROVE  /\ Walks[i].pass = "files" =>
                     /\ Walks[i].root \in Wiped
                     /\ Walks[i + 1] = [pass |-> "dirs", root |-> Walks[i].root]
               /\ Walks[i].pass = "dirs" => i \in {2, 4, 6, 8}
               /\ Walks[i].pass = "logs" => i \in {9, 10}
               /\ Walks[i].pass # "logs" => i \in 1..8
    BY <1>3, TenWalks DEF Wiped
  <1>4. ASSUME NEW i \in {2, 4, 6, 8}, NEW j \in {2, 4, 6, 8}, Walks[i].root = Walks[j].root
        PROVE  i = j
    BY <1>4, TenWalks, WipedAssumption DEF WipedAssumption
  <1>5. ASSUME NEW i \in DOMAIN Walks, NEW j \in DOMAIN Walks
        PROVE  /\ Walks[i].pass = "files" /\ Walks[j].pass = "dirs" /\ Walks[i].root = Walks[j].root
                     => i < j
               /\ Walks[i].pass # "logs" /\ Walks[j].pass = "logs" => i < j
               /\ Walks[i].pass = "dirs" /\ Walks[j].pass = "dirs" /\ Walks[i].root = Walks[j].root
                     => i = j
    <2>1. i \in 1..10 /\ j \in 1..10
      BY TenWalks
    <2>2. CASE Walks[i].pass = "files" /\ Walks[j].pass = "dirs" /\ Walks[i].root = Walks[j].root
      <3>1. i + 1 \in {2, 4, 6, 8}
        BY <2>1, <2>2, TenWalks
      <3>2. Walks[i + 1] = [pass |-> "dirs", root |-> Walks[i].root]
        BY <1>3, <2>2
      <3>3. Walks[i + 1].root = Walks[j].root /\ j \in {2, 4, 6, 8}
        BY <1>3, <2>2, <3>2
      <3>4. i + 1 = j
        BY <1>4, <3>1, <3>3
      <3>5. QED
        BY <2>1, <2>2, <3>4
    <2>3. CASE Walks[i].pass # "logs" /\ Walks[j].pass = "logs"
      <3>1. i \in 1..8 /\ j \in {9, 10}
        BY <1>3, <2>3
      <3>2. i < j
        BY <3>1
      <3>3. QED
        BY <2>3, <3>2
    <2>4. CASE Walks[i].pass = "dirs" /\ Walks[j].pass = "dirs" /\ Walks[i].root = Walks[j].root
      <3>1. i \in {2, 4, 6, 8} /\ j \in {2, 4, 6, 8}
        BY <1>3, <2>4
      <3>2. QED
        BY <1>4, <2>4, <3>1
    <2>5. QED
      BY <2>2, <2>3, <2>4
  <1>6. QED
    BY <1>1, <1>2, <1>5

-----------------------------------------------------------------------------
(* What is removed by which walk *)

Stays(p) ==
    \/ p \in lockedPaths
    \/ /\ Below[p] \cap Wiped = {}
       /\ p \in LogNamed => before[p] = "dir" \/ Below[p] \cap Scanned = {}
    \/ /\ before[p] = "dir"
       /\ \E q \in Children(before, p) : q \in lockedPaths \/ before[q] = "dir"

Doomed(p) == before[p] # "none" /\ ~Stays(p)

\* What a sweep that nobody interferes with leaves of the tree.  The directories
\* that had a directory in them stay, because the second walk comes to a directory
\* before it comes to those inside it.
Left == [p \in Paths |-> IF Stays(p) THEN before[p] ELSE "none"]

Under(i, p) == Walks[i].root \in Below[p]

\* Walk i is the one that removes p: of a temporary directory the first takes the
\* files and the second the directories, and the last two the logs elsewhere.
Takes(i, p) ==
    /\ Doomed(p) /\ Under(i, p)
    /\ Walks[i].pass = "dirs" <=> before[p] = "dir"
    /\ Walks[i].pass = "logs" => Below[p] \cap Wiped = {}

\* The walk that takes p is over, or is under way and has visited it.
Gone(V, p) == \E i \in DOMAIN Walks : Takes(i, p) /\ (i < walk \/ (i = walk /\ p \in V))

\* What has to go is taken by one of the walks.
LEMMA DoomedTaken ==
    ASSUME before \in [Paths -> Kinds], NEW p \in Paths, Doomed(p)
    PROVE  \E i \in DOMAIN Walks : Takes(i, p)
  <1>1. CASE Below[p] \cap Wiped # {}
    <2>1. PICK r \in Wiped : r \in Below[p]
      BY <1>1
    <2>2. PICK i, j \in DOMAIN Walks :
              /\ Walks[i] = [pass |-> "files", root |-> r]
              /\ Walks[j] = [pass |-> "dirs", root |-> r]
      BY WalkOrder
    <2>3. Under(i, p) /\ Under(j, p)
      BY <2>1, <2>2 DEF Under
    <2>4. QED
      BY <2>2, <2>3 DEF Takes
  <1>2. CASE Below[p] \cap Wiped = {}
    <2>1. before[p] # "dir" /\ Below[p] \cap Scanned # {}
      BY <1>2 DEF Doomed, Stays
    <2>2. PICK r \in Scanned : r \in Below[p]
      BY <2>1
    <2>3. PICK i \in DOMAIN Walks : Walks[i] = [pass |-> "logs", root |-> r]
      BY WalkOrder
    <2>4. Under(i, p)
      BY <2>2, <2>3 DEF Under
    <2>5. QED
      BY <1>2, <2>1, <2>3, <2>4 DEF Takes
  <1>3. QED
    BY <1>1, <1>2

LEMMA TakesSame ==
    ASSUME UNCHANGED <<before, lockedPaths>>
    PROVE  \A i, p : Takes(i, p)' <=> Takes(i, p)
  BY DEF Takes, Doomed, Stays, Under, Children

-----------------------------------------------------------------------------
(* A sweep that nobody disturbs *)

IsRoot(p) == p = Walks[walk].root
Ahead == {agenda[i].path : i \in 1..Len(agenda)}

\* Of the tree at the beginning, what has to go and whose turn has been is gone.
TreeInv(V) ==
    /\ \A p \in Paths : tree[p] = IF Gone(V, p) THEN "none" ELSE before[p]
    /\ \A p \in Paths : tree[p] # "none" /\ Parent[p] # Outside => tree[Parent[p]] = "dir"
    /\ before \in Trees
    /\ \A p \in lockedPaths : before[p] = "file"

\* The walk has visited the paths V, each after its directory, none of those in
\* the directory it is about to list.
VisitedInv(V) ==
    /\ V # {} => walk \in DOMAIN Walks
    /\ \A p \in V : IsRoot(p) \/ (Under(walk, p) /\ Parent[p] \in V)
    /\ listing # Outside => listing \in V /\ \A p \in V : IsRoot(p) \/ Parent[p] # listing

\* It has to visit others, each once, that are what they were listed as.
AheadInv(V) ==
    /\ \A i \in 1..Len(agenda) :
          /\ agenda[i].path \notin V
          /\ agenda[i].kind = tree[agenda[i].path]
          /\ IsRoot(agenda[i].path) \/ Parent[agenda[i].path] \in V \ {listing}
    /\ \A i, j \in 1..Len(agenda) : agenda[i].path = agenda[j].path => i = j

\* Nothing is forgotten that is in a directory that has been listed.
ReachInv(V) ==
    /\ \A p \in Paths :
          tree[p] # "none" /\ Parent[p] \in V \ {listing} => p \in V \cup Ahead
    /\ walk \in DOMAIN Walks =>
          \A p \in Paths : tree[p] # "none" /\ IsRoot(p) => p \in V \cup Ahead

WalkInv(V) == TreeInv(V) /\ VisitedInv(V) /\ AheadInv(V) /\ ReachInv(V)

SweepInv == fileEvents = 0 => \E V \in SUBSET Paths : WalkInv(V)

LEMMA SweepStart == CleanerInit => SweepInv
  <1> SUFFICES ASSUME CleanerInit PROVE SweepInv
    OBVIOUS
  <1>1. \A p \in Paths : ~Gone({}, p)
    BY TenWalks DEF CleanerInit, Gone
  <1>2. TreeInv({})
    <2>1. tree \in Trees /\ before = tree
      BY DEF CleanerInit
    <2>2. \A p \in lockedPaths : before[p] = "file"
      BY DEF CleanerInit
    <2>3. QED
      BY <1>1, <2>1, <2>2, InsideAssumption DEF TreeInv, InsideAssumption
  <1>3. walk \notin DOMAIN Walks /\ listing = Outside /\ Len(agenda) = 0
    BY TenWalks DEF CleanerInit
  <1>4. VisitedInv({}) /\ AheadInv({}) /\ ReachInv({})
    BY <1>3 DEF VisitedInv, AheadInv, ReachInv
  <1>5. QED
    BY <1>2, <1>4 DEF SweepInv, WalkInv

\* When there is nothing ahead, the walk has visited all there is below its root.
LEMMA AllVisited ==
    ASSUME CleanerInv, NEW V \in SUBSET Paths, WalkInv(V),
           agenda = <<>>, listing = Outside, walk \in DOMAIN Walks,
           NEW p \in Paths, tree[p] # "none", Under(walk, p)
    PROVE  p \in V
  <1> DEFINE S == {q \in Paths : tree[q] # "none" /\ Under(walk, q) /\ q \notin V}
  <1>1. SUFFICES ASSUME S # {} PROVE FALSE
    OBVIOUS
  <1>2. PICK q \in S : Parent[q] \notin S
    BY <1>1, TreeAssumption DEF TreeAssumption
  <1>3. Ahead = {}
    <2>1. Len(agenda) = 0
      OBVIOUS
    <2>2. QED
      BY <2>1 DEF Ahead
  <1>4. Parent[q] \in Paths \cup {Outside} /\ Outside \notin Paths
    BY <1>2, CleanerAssumption DEF CleanerAssumption
  <1>5. Parent[q] # Outside
    <2>1. Walks[walk].root \in Paths
      BY WalksType, WalkRoots
    <2>2. QED
      BY <1>2, <1>4, <2>1, BelowChild, BelowTop DEF Under
  <1>6. tree[Parent[q]] = "dir"
    BY <1>2, <1>5 DEF WalkInv, TreeInv
  <1>7. Parent[q] \notin V
    BY <1>2, <1>3, <1>4 DEF WalkInv, ReachInv
  <1>8. ~IsRoot(Parent[q])
    BY <1>3, <1>4, <1>5, <1>6, <1>7 DEF WalkInv, ReachInv
  <1>9. Under(walk, Parent[q])
    BY <1>2, <1>8, BelowChild DEF Under, IsRoot
  <1>10. QED
    BY <1>2, <1>4, <1>5, <1>6, <1>7, <1>9

LEMMA StartWalkSweeps ==
    ASSUME CleanerInv, StartWalk, NEW V \in SUBSET Paths, WalkInv(V)
    PROVE  WalkInv({})'
  <1>1. walk \in 0..11 /\ walk' = walk + 1 /\ DOMAIN Walks = 1..10
    BY TenWalks DEF CleanerInv, CleanerTypeOK, StartWalk
  <1>2. /\ agenda = <<>> /\ listing = Outside
        /\ UNCHANGED <<tree, lockedPaths, listing, before>>
    BY DEF StartWalk
  <1>3. \A i \in DOMAIN Walks, p \in Paths : Takes(i, p)' <=> Takes(i, p)
    BY <1>2, TakesSame
  <1>4. ASSUME NEW p \in Paths
        PROVE  Gone({}, p)' <=> Gone(V, p)
    <2>1. Gone({}, p)' <=> \E i \in DOMAIN Walks : Takes(i, p) /\ i < walk + 1
      BY <1>1, <1>3 DEF Gone
    <2>2. ASSUME walk \in DOMAIN Walks, Takes(walk, p), tree[p] # "none"
          PROVE  p \in V
      BY <1>2, <2>2, AllVisited DEF Takes
    <2>3. Takes(walk, p) => before[p] # "none"
      BY DEF Takes, Doomed
    <2>4. ASSUME NEW i \in DOMAIN Walks, Takes(i, p), i < walk + 1
          PROVE  Gone(V, p)
      <3>1. CASE i < walk
        BY <2>4, <3>1 DEF Gone
      <3>2. CASE i = walk
        <4>1. CASE tree[p] # "none"
          BY <2>2, <2>4, <3>2, <4>1 DEF Gone
        <4>2. CASE tree[p] = "none"
          BY <2>3, <2>4, <3>2, <4>2 DEF WalkInv, TreeInv
        <4>3. QED
          BY <4>1, <4>2
      <3>3. QED
        BY <1>1, <2>4, <3>1, <3>2
    <2>5. Gone(V, p) => \E i \in DOMAIN Walks : Takes(i, p) /\ i < walk + 1
      BY <1>1 DEF Gone
    <2>6. QED
      BY <2>1, <2>4, <2>5
  <1>5. TreeInv({})'
    BY <1>2, <1>4 DEF WalkInv, TreeInv
  <1>6. VisitedInv({})'
    BY <1>2 DEF VisitedInv
  <1>7. CASE walk' \in DOMAIN Walks /\ tree[Walks[walk'].root] # "none"
    <2> DEFINE first == [path |-> Walks[walk'].root, kind |-> tree[Walks[walk'].root]]
    <2>1. agenda' = <<first>>
      BY <1>7 DEF StartWalk
    <2>2. first.path = Walks[walk'].root /\ first.kind = tree[first.path]
      OBVIOUS
    <2> HIDE DEF first
    <2>3. Len(agenda') = 1 /\ agenda'[1] = first
      BY <2>1
    <2>4. AheadInv({})'
      BY <1>2, <2>2, <2>3 DEF AheadInv, IsRoot
    <2>5. Ahead' = {first.path}
      BY <2>3 DEF Ahead
    <2>6. ReachInv({})'
      BY <2>2, <2>5 DEF ReachInv, IsRoot
    <2>7. QED
      BY <1>5, <1>6, <2>4, <2>6 DEF WalkInv
  <1>8. CASE ~(walk' \in DOMAIN Walks /\ tree[Walks[walk'].root] # "none")
    <2>1. Len(agenda') = 0
      BY <1>8 DEF StartWalk
    <2>2. AheadInv({})' /\ ReachInv({})'
      BY <1>2, <1>8, <2>1 DEF AheadInv, ReachInv, IsRoot
    <2>3. QED
      BY <1>5, <1>6, <2>2 DEF WalkInv
  <1>9. QED
    BY <1>7, <1>8

\* What is there has not been taken, and is what it was at the beginning.
LEMMA ThereIsKept ==
    ASSUME CleanerInv, NEW V \in SUBSET Paths, WalkInv(V), NEW p \in Paths, tree[p] # "none"
    PROVE  /\ before[p] = tree[p] /\ ~Gone(V, p)
           /\ \A i \in DOMAIN Walks : i < walk => ~Takes(i, p)
           /\ tree[p] # "dir" => Children(tree, p) = {}
  <1>1. before[p] = tree[p] /\ ~Gone(V, p)
    BY DEF WalkInv, TreeInv
  <1>2. \A i \in DOMAIN Walks : i < walk => ~Takes(i, p)
    BY <1>1 DEF Gone
  <1>3. tree[p] # "dir" => Children(tree, p) = {}
    BY CleanerAssumption DEF WalkInv, TreeInv, Children, CleanerAssumption
  <1>4. QED
    BY <1>1, <1>2, <1>3

\* In a directory that the second walk comes to there are still the files in use
\* and the directories.
LEMMA StillInside ==
    ASSUME CleanerInv, NEW V \in SUBSET Paths, WalkInv(V),
           walk \in DOMAIN Walks, Walks[walk].pass = "dirs",
           NEW x \in Paths \ V, Under(walk, x), tree[x] = "dir"
    PROVE  Children(tree, x) = {}
             <=> ~\E q \in Children(before, x) : q \in lockedPaths \/ before[q] = "dir"
  <1>1. walk \in 1..10 /\ Walks[walk] \in WalkSet
    BY TenWalks, WalksType
  <1>2. Walks[walk].root \in Wiped
    BY <1>1, WalkRoots
  <1>3. ASSUME NEW q \in Paths, Parent[q] = x, before[q] # "none"
        PROVE  tree[q] # "none" <=> q \in lockedPaths \/ before[q] = "dir"
    <2>1. Under(walk, q)
      BY <1>3, BelowChild DEF Under
    <2>2. ~IsRoot(q)
      BY <2>1, Acyclic DEF IsRoot, Under
    <2>3. q \notin V
      BY <1>3, <2>2 DEF WalkInv, VisitedInv
    <2>4. CASE q \in lockedPaths
      <3>1. ~Gone(V, q)
        BY <2>4 DEF Gone, Takes, Doomed, Stays
      <3>2. QED
        BY <1>3, <2>4, <3>1 DEF WalkInv, TreeInv
    <2>5. CASE q \notin lockedPaths /\ before[q] = "dir"
      <3>1. ASSUME NEW i \in DOMAIN Walks, Takes(i, q), i < walk \/ (i = walk /\ q \in V)
            PROVE  FALSE
        <4>1. Walks[i].pass = "dirs" /\ Under(i, q) /\ i < walk
          BY <2>3, <2>5, <3>1 DEF Takes
        <4>2. Walks[i].root \in Wiped
          BY <4>1, WalksType, WalkRoots
        <4>3. Walks[i].root = Walks[walk].root
          BY <1>2, <2>1, <4>1, <4>2, OneRoot DEF Under
        <4>4. i = walk
          BY <4>1, <4>3, WalkOrder
        <4>5. QED
          BY <1>1, <4>1, <4>4
      <3>2. ~Gone(V, q)
        BY <3>1 DEF Gone
      <3>3. QED
        BY <1>3, <2>5, <3>2 DEF WalkInv, TreeInv
    <2>6. CASE q \notin lockedPaths /\ before[q] # "dir"
      <3>1. Below[q] \cap Wiped # {}
        BY <1>2, <2>1 DEF Under
      <3>2. Doomed(q)
        BY <1>3, <2>6, <3>1 DEF Doomed, Stays
      <3>3. PICK i \in DOMAIN Walks : Walks[i] = [pass |-> "files", root |-> Walks[walk].root]
        BY <1>2, WalkOrder
      <3>4. i < walk
        BY <3>3, WalkOrder
      <3>5. Takes(i, q)
        BY <2>1, <2>6, <3>2, <3>3 DEF Takes, Under
      <3>6. Gone(V, q)
        BY <3>4, <3>5 DEF Gone
      <3>7. QED
        BY <2>6, <3>6 DEF WalkInv, TreeInv
    <2>7. QED
      BY <2>4, <2>5, <2>6
  <1>4. ASSUME NEW q \in Paths, tree[q] # "none"
        PROVE  before[q] # "none"
    BY <1>4, ThereIsKept
  <1>5. QED
    BY <1>3, <1>4 DEF Children

\* A visit removes a path when it is the walk that takes it.
LEMMA HitWhenTaken ==
    ASSUME CleanerInv, NEW V \in SUBSET Paths, WalkInv(V), walk \in DOMAIN Walks,
           NEW entry \in Entries, entry.path \notin V, entry.kind = tree[entry.path],
           Within(entry.path)
    PROVE  Targets(Walks[walk], entry) /\ Removable(entry.path) <=> Takes(walk, entry.path)
  <1> DEFINE x == entry.path
             w == Walks[walk]
  <1>1. x \in Paths /\ tree[x] = entry.kind /\ entry.kind \in {"dir", "file", "link"}
    BY DEF Entries
  <1>2. /\ before[x] = tree[x] /\ tree[x] # "none"
        /\ \A i \in DOMAIN Walks : i < walk => ~Takes(i, x)
        /\ tree[x] # "dir" => Children(tree, x) = {}
    BY <1>1, ThereIsKept
  <1>3. w \in WalkSet /\ walk \in 1..10
    BY TenWalks, WalksType
  <1>4. /\ w.pass \in {"files", "dirs", "logs"}
        /\ w.pass \in {"files", "dirs"} => w.root \in Wiped
        /\ w.pass = "logs" => w.root \in Scanned /\ w.root \notin LogNamed
    BY <1>3, WalkRoots
  <1>5. x # w.root <=> Under(walk, x)
    BY <1>1, Acyclic DEF Within, Under
  <1>6. before[x] = "dir" => x \notin lockedPaths
    BY DEF WalkInv, TreeInv
  <1> HIDE DEF x, w
  <1>7. CASE w.pass = "files"
    <2>1. Targets(w, entry) <=> Under(walk, x) /\ before[x] # "dir"
      BY <1>1, <1>2, <1>5, <1>7 DEF Targets, x
    <2>2. before[x] # "dir" => (Removable(x) <=> x \notin lockedPaths)
      BY <1>2 DEF Removable
    <2>3. Under(walk, x) /\ before[x] # "dir" => (Doomed(x) <=> x \notin lockedPaths)
      BY <1>2, <1>4, <1>7 DEF Doomed, Stays, Under, w
    <2>4. Takes(walk, x) <=> Doomed(x) /\ Under(walk, x) /\ before[x] # "dir"
      BY <1>7 DEF Takes, w
    <2>5. QED
      BY <2>1, <2>2, <2>3, <2>4 DEF x, w
  <1>8. CASE w.pass = "dirs"
    <2>1. Targets(w, entry) <=> Under(walk, x) /\ before[x] = "dir"
      BY <1>1, <1>2, <1>5, <1>8 DEF Targets, x
    <2>2. ASSUME Under(walk, x), before[x] = "dir"
          PROVE  Removable(x) <=> Doomed(x)
      <3>1. Children(tree, x) = {}
             <=> ~\E q \in Children(before, x) : q \in lockedPaths \/ before[q] = "dir"
        BY <1>1, <1>2, <1>8, <2>2, StillInside DEF x, w
      <3>2. Below[x] \cap Wiped # {}
        BY <1>4, <1>8, <2>2 DEF Under, w
      <3>3. QED
        BY <1>2, <1>6, <2>2, <3>1, <3>2 DEF Removable, Doomed, Stays
    <2>3. Takes(walk, x) <=> Doomed(x) /\ Under(walk, x) /\ before[x] = "dir"
      BY <1>8 DEF Takes, w
    <2>4. QED
      BY <2>1, <2>2, <2>3 DEF x, w
  <1>9. CASE w.pass = "logs"
    <2>1. Targets(w, entry) <=> before[x] # "dir" /\ x \in LogNamed
      BY <1>1, <1>2, <1>9 DEF Targets, x
    <2>2. before[x] # "dir" => (Removable(x) <=> x \notin lockedPaths)
      BY <1>2 DEF Removable
    <2>3. Takes(walk, x) <=> /\ Doomed(x) /\ Under(walk, x) /\ before[x] # "dir"
                             /\ Below[x] \cap Wiped = {}
      BY <1>9 DEF Takes, w
    <2>4. CASE Below[x] \cap Wiped # {}
      <3>1. ASSUME x \notin lockedPaths, before[x] # "dir"
            PROVE  FALSE
        <4>1. Doomed(x)
          BY <1>2, <2>4, <3>1 DEF Doomed, Stays
        <4>2. PICK r \in Wiped : r \in Below[x]
          BY <2>4
        <4>3. PICK i \in DOMAIN Walks : Walks[i] = [pass |-> "files", root |-> r]
          BY WalkOrder
        <4>4. Takes(i, x)
          BY <3>1, <4>1, <4>2, <4>3 DEF Takes, Under
        <4>5. i < walk
          BY <1>9, <4>3, WalkOrder DEF w
        <4>6. QED
          BY <1>2, <4>4, <4>5
      <3>2. QED
        BY <2>1, <2>2, <2>3, <2>4, <3>1 DEF x, w
    <2>5. CASE Below[x] \cap Wiped = {}
      <3>1. Doomed(x) /\ before[x] # "dir" => x \in LogNamed /\ x \notin lockedPaths
        BY <2>5 DEF Doomed, Stays
      <3>2. ASSUME before[x] # "dir", x \in LogNamed, x \notin lockedPaths
            PROVE  Doomed(x) /\ Under(walk, x)
        <4>1. Under(walk, x)
          BY <1>4, <1>5, <1>9, <3>2
        <4>2. Below[x] \cap Scanned # {}
          BY <1>4, <1>9, <4>1 DEF Under, w
        <4>3. QED
          BY <1>2, <2>5, <3>2, <4>1, <4>2 DEF Doomed, Stays
      <3>3. QED
        BY <2>1, <2>2, <2>3, <2>5, <3>1, <3>2 DEF x, w
    <2>6. QED
      BY <2>4, <2>5
  <1>10. QED
    BY <1>4, <1>7, <1>8, <1>9

LEMMA VisitSweeps ==
    ASSUME CleanerInv, Visit, fileEvents = 0, NEW V \in SUBSET Paths, WalkInv(V),
           NEW x, x = Head(agenda).path
    PROVE  WalkInv(V \cup {x})'
  <1> DEFINE entry == Head(agenda)
             W == V \cup {x}
             hit == Targets(Walks[walk], entry) /\ Removable(x)
  <1>1. agenda \in Seq(Entries) /\ agenda # <<>> /\ Len(agenda) \in Nat \ {0}
    BY EmptySeq DEF CleanerInv, CleanerTypeOK, Visit, Entries
  <1>2. entry = agenda[1] /\ 1 \in 1..Len(agenda)
    BY <1>1
  <1>3. entry \in Entries /\ Within(entry.path) /\ walk \in DOMAIN Walks /\ Leads(x) = {x}
    BY <1>2, AgendaEntry, NoDetour DEF CleanerInv, LinkInv, Entries
  <1>4. /\ agenda' = Tail(agenda) /\ Len(agenda') = Len(agenda) - 1
        /\ \A i \in 1..Len(agenda') : agenda'[i] = agenda[i + 1]
    BY <1>1, HeadTailProperties DEF Visit
  <1>5. /\ tree' = (IF hit THEN [tree EXCEPT ![x] = "none"] ELSE tree)
        /\ listing' = (IF entry.kind = "dir" THEN x ELSE Outside)
        /\ listing = Outside
        /\ UNCHANGED <<lockedPaths, walk, before>>
    BY <1>3 DEF Visit
  <1>6. (hit => Removable(x)) /\ x = entry.path
    OBVIOUS
  <1> HIDE DEF entry, hit
  <1>7. /\ x \in Paths /\ x \notin V /\ entry.kind = tree[x] /\ tree[x] # "none"
        /\ IsRoot(x) \/ Parent[x] \in V \ {listing}
        /\ Outside \notin Paths
    BY <1>2, <1>3, <1>6, CleanerAssumption DEF WalkInv, AheadInv, Entries, CleanerAssumption
  <1>8. hit <=> Takes(walk, x)
    <2>1. Targets(Walks[walk], entry) /\ Removable(entry.path) <=> Takes(walk, entry.path)
      BY <1>3, <1>6, <1>7, HitWhenTaken
    <2>2. QED
      BY <1>6, <2>1 DEF hit
  <1>9. IsRoot(x) \/ Under(walk, x)
    BY <1>3, <1>6 DEF Within, IsRoot, Under
  <1>10. tree \in [Paths -> Kinds]
    BY DEF CleanerInv, CleanerTypeOK
  <1>11. \A p \in Paths : tree'[p] = IF p = x /\ hit THEN "none" ELSE tree[p]
    BY <1>5, <1>7, <1>10
  <1>12. TreeInv(W)'
    <2>1. \A i \in DOMAIN Walks, p \in Paths : Takes(i, p)' <=> Takes(i, p)
      BY <1>5, TakesSame
    <2>2. ASSUME NEW p \in Paths, p # x
          PROVE  Gone(W, p)' <=> Gone(V, p)
      BY <1>5, <2>1, <2>2 DEF Gone
    <2>3. Gone(W, x)' <=> Takes(walk, x)
      <3>1. ~Gone(V, x) /\ walk \in 1..10 /\ DOMAIN Walks = 1..10
        BY <1>3, <1>7, ThereIsKept, TenWalks
      <3>2. Gone(W, x)' <=> \E i \in DOMAIN Walks : Takes(i, x) /\ (i < walk \/ i = walk)
        BY <1>5, <1>7, <2>1 DEF Gone
      <3>3. QED
        BY <1>3, <3>1, <3>2 DEF Gone
    <2>4. ASSUME NEW p \in Paths
          PROVE  tree'[p] = IF Gone(W, p)' THEN "none" ELSE before[p]
      <3>1. tree[p] = IF Gone(V, p) THEN "none" ELSE before[p]
        BY DEF WalkInv, TreeInv
      <3>2. CASE p # x
        BY <1>11, <2>2, <3>1, <3>2
      <3>3. CASE p = x
        <4>1. before[x] = tree[x]
          BY <1>7, ThereIsKept
        <4>2. QED
          BY <1>8, <1>11, <2>3, <3>3, <4>1
      <3>4. QED
        BY <3>2, <3>3
    <2>5. ASSUME NEW p \in Paths, tree'[p] # "none", Parent[p] # Outside
          PROVE  tree'[Parent[p]] = "dir"
      <3>1. tree[p] # "none" /\ tree[Parent[p]] = "dir" /\ Parent[p] \in Paths
        BY <1>11, <2>5, CleanerAssumption DEF WalkInv, TreeInv, CleanerAssumption
      <3>2. ~(hit /\ Parent[p] = x)
        BY <1>6, <3>1 DEF Removable, Children
      <3>3. QED
        BY <1>11, <3>1, <3>2
    <2>6. QED
      BY <1>5, <2>4, <2>5 DEF WalkInv, TreeInv
  <1>13. Ahead \subseteq {x} \cup Ahead'
    <2>1. ASSUME NEW i \in 1..Len(agenda), i # 1
          PROVE  agenda[i].path \in Ahead'
      <3>1. i - 1 \in 1..Len(agenda') /\ agenda'[i - 1] = agenda[i]
        BY <1>1, <1>4, <2>1
      <3>2. QED
        BY <3>1 DEF Ahead
    <2>2. QED
      BY <1>2, <1>6, <2>1 DEF Ahead
  <1>14. VisitedInv(W)'
    <2>1. \A p \in W : IsRoot(p) \/ (Under(walk, p) /\ Parent[p] \in V)
      BY <1>5, <1>7, <1>9 DEF WalkInv, VisitedInv
    <2>2. \A p \in W : IsRoot(p) \/ Parent[p] # x
      BY <1>7, <2>1
    <2>3. QED
      BY <1>3, <1>5, <2>1, <2>2 DEF VisitedInv, IsRoot, Under
  <1>15. AheadInv(W)'
    <2>1. ASSUME NEW i \in 1..Len(agenda')
          PROVE  /\ i + 1 \in 1..Len(agenda) /\ agenda'[i] = agenda[i + 1]
                 /\ agenda'[i].path \in Paths
                 /\ agenda'[i].path \notin W
                 /\ agenda'[i].kind = tree[agenda'[i].path]
                 /\ IsRoot(agenda'[i].path) \/ Parent[agenda'[i].path] \in V
      <3>1. i + 1 \in 1..Len(agenda) /\ agenda'[i] = agenda[i + 1] /\ i + 1 # 1
        BY <1>1, <1>4
      <3>2. agenda[i + 1] \in Entries
        BY <3>1, AgendaEntry
      <3>3. agenda[i + 1].path # x
        BY <1>2, <1>6, <3>1 DEF WalkInv, AheadInv
      <3>4. QED
        BY <3>1, <3>2, <3>3 DEF WalkInv, AheadInv, Entries
    <2>2. ASSUME NEW i \in 1..Len(agenda'), NEW j \in 1..Len(agenda'),
                 agenda'[i].path = agenda'[j].path
          PROVE  i = j
      <3>1. i + 1 = j + 1
        BY <2>1, <2>2 DEF WalkInv, AheadInv
      <3>2. QED
        BY <3>1
    <2>3. \A i \in 1..Len(agenda') : agenda'[i].kind = tree'[agenda'[i].path]
      BY <1>11, <2>1
    <2>4. \A i \in 1..Len(agenda') :
            IsRoot(agenda[i].path)' \/ Parent[agenda'[i].path] \in W \ {listing'}
      BY <1>5, <1>7, <2>1 DEF IsRoot
    <2>5. QED
      BY <2>1, <2>2, <2>3, <2>4 DEF AheadInv
  <1>16. ReachInv(W)'
    <2>1. ASSUME NEW p \in Paths, tree'[p] # "none", Parent[p] \in W \ {listing'}
          PROVE  p \in W \cup Ahead'
      <3>1. tree[p] # "none"
        BY <1>11, <2>1
      <3>2. CASE Parent[p] \in V
        <4>1. p \in V \cup Ahead
          BY <1>5, <1>7, <3>1, <3>2 DEF WalkInv, ReachInv
        <4>2. QED
          BY <1>13, <4>1
      <3>3. CASE Parent[p] = x
        <4>1. tree[x] = "dir"
          BY <1>7, <3>1, <3>3 DEF WalkInv, TreeInv
        <4>2. listing' = x
          BY <1>5, <1>7, <4>1
        <4>3. QED
          BY <2>1, <3>3, <4>2
      <3>4. QED
        BY <2>1, <3>2, <3>3
    <2>2. ASSUME NEW p \in Paths, tree'[p] # "none", IsRoot(p)
          PROVE  p \in W \cup Ahead'
      <3>1. p \in V \cup Ahead
        BY <1>3, <1>11, <2>2 DEF WalkInv, ReachInv
      <3>2. QED
        BY <1>13, <3>1
    <2>3. \A p : IsRoot(p)' <=> IsRoot(p)
      BY <1>5 DEF IsRoot
    <2>4. QED
      BY <2>1, <2>2, <2>3 DEF ReachInv
  <1>17. QED
    BY <1>12, <1>14, <1>15, <1>16 DEF WalkInv

\* A listing has everything that is in the directory, once.
LEMMA ListingExact ==
    ASSUME NEW t, NEW dir, NEW here \in Listings(t, dir)
    PROVE  /\ \A p \in Children(t, dir) : \E i \in DOMAIN here : here[i] = p
           /\ \A i, j \in DOMAIN here : here[i] = here[j] => i = j
  <1> DEFINE inside == Children(t, dir)
             n == Cardinality(inside)
  <1>1. IsFiniteSet(inside) /\ n \in Nat
    <2>1. inside \in SUBSET Paths
      BY DEF Children
    <2>2. QED
      BY <2>1, PathsFinite, FS_Subset, FS_CardinalityType
  <1>2. /\ here \in [1..n -> inside]
        /\ \A i, j \in DOMAIN here : i < j => Precedes(here[i], here[j])
    BY DEF Listings
  <1>3. ASSUME NEW i \in DOMAIN here, NEW j \in DOMAIN here, i < j
        PROVE  here[i] # here[j]
    <2>1. PICK k, l \in DOMAIN Order : k < l /\ Order[k] = here[i] /\ Order[l] = here[j]
      BY <1>2, <1>3 DEF Precedes
    <2>2. k \in Nat /\ l \in Nat
      BY CleanerAssumption, LenProperties DEF CleanerAssumption
    <2>3. QED
      BY <2>1, <2>2, CleanerAssumption DEF CleanerAssumption
  <1> HIDE DEF n, inside
  <1>4. \A i, j \in DOMAIN here : here[i] = here[j] => i = j
    <2>1. SUFFICES ASSUME NEW i \in DOMAIN here, NEW j \in DOMAIN here, here[i] = here[j]
                   PROVE  i = j
      OBVIOUS
    <2>2. i \in Int /\ j \in Int /\ ~(i < j) /\ ~(j < i)
      BY <1>1, <1>2, <1>3, <2>1
    <2>3. QED
      BY <2>2
  <1>5. here \in Injection(1..n, inside)
    BY <1>2, <1>4 DEF Injection, IsInjective
  <1>6. IsFiniteSet(1..n) /\ Cardinality(1..n) = n
    BY <1>1, FS_Interval
  <1>7. here \in Surjection(1..n, inside)
    BY <1>1, <1>5, <1>6, FS_Injection DEF n
  <1>8. QED
    BY <1>2, <1>4, <1>7 DEF Surjection, inside

LEMMA ListSweeps ==
    ASSUME CleanerInv, List, fileEvents = 0, NEW V \in SUBSET Paths, WalkInv(V)
    PROVE  WalkInv(V)'
  <1>0. Leads(listing) = {listing} /\ tree[listing] # "link"
    BY NoDetour DEF List, CleanerInv, CleanerTypeOK, LinkInv
  <1>1. PICK here \in Listings(tree, listing) :
            agenda' = [i \in DOMAIN here |-> [path |-> here[i], kind |-> tree[here[i]]]] \o agenda
    BY <1>0 DEF List
  <1> DEFINE found == [i \in DOMAIN here |-> [path |-> here[i], kind |-> tree[here[i]]]]
  <1>2. /\ Len(here) \in Nat /\ DOMAIN here = 1..Len(here)
        /\ \A i \in DOMAIN here : here[i] \in Children(tree, listing)
    BY <1>1, ListingsType
  <1>3. /\ \A p \in Children(tree, listing) : \E i \in DOMAIN here : here[i] = p
        /\ \A i, j \in DOMAIN here : here[i] = here[j] => i = j
    BY <1>1, ListingExact
  <1>4. \A i \in DOMAIN here :
            /\ here[i] \in Paths /\ Parent[here[i]] = listing /\ tree[here[i]] # "none"
            /\ found[i] \in Entries /\ found[i].path = here[i]
            /\ found[i].kind = tree[here[i]]
    BY <1>2 DEF Children, CleanerInv, CleanerTypeOK, Entries, Kinds
  <1>5. found \in Seq(Entries) /\ Len(found) = Len(here)
    <2>1. found \in [1..Len(here) -> Entries]
      BY <1>2, <1>4
    <2>2. QED
      BY <1>2, <2>1, SeqDef
  <1>6. agenda \in Seq(Entries) /\ Len(agenda) \in Nat
    BY LenProperties DEF CleanerInv, CleanerTypeOK, Entries
  <1>7. agenda' = found \o agenda
    BY <1>1
  <1> HIDE DEF found
  <1>8. /\ Len(agenda') = Len(here) + Len(agenda)
        /\ \A i \in 1..Len(here) + Len(agenda) :
              agenda'[i] = IF i <= Len(here) THEN found[i] ELSE agenda[i - Len(here)]
    <2>1. /\ Len(agenda') = Len(found) + Len(agenda)
          /\ \A i \in 1..Len(found) + Len(agenda) :
                agenda'[i] = IF i <= Len(found) THEN found[i] ELSE agenda[i - Len(found)]
      BY <1>5, <1>6, <1>7, ConcatProperties
    <2>2. QED
      BY <1>5, <2>1
  <1>9. /\ \A i \in 1..Len(here) : agenda'[i] = found[i] /\ i \in 1..Len(agenda')
        /\ \A i \in 1..Len(agenda) : agenda'[i + Len(here)] = agenda[i]
                                       /\ i + Len(here) \in 1..Len(agenda')
        /\ \A i \in 1..Len(agenda') :
              \/ i \in 1..Len(here)
              \/ i - Len(here) \in 1..Len(agenda) /\ i = (i - Len(here)) + Len(here)
    BY <1>2, <1>6, <1>8
  <1>10. /\ listing' = Outside
         /\ UNCHANGED <<tree, lockedPaths, walk, before, removed, fileEvents>>
    BY DEF List
  <1>11. listing \in V /\ V # {} /\ walk \in DOMAIN Walks /\ Outside \notin Paths
    BY CleanerAssumption DEF List, WalkInv, VisitedInv, CleanerAssumption
  <1>12. \A p : (IsRoot(p)' <=> IsRoot(p)) /\ (Under(walk, p)' <=> Under(walk, p))
    BY <1>10 DEF IsRoot, Under
  <1>13. TreeInv(V)'
    <2>1. \A i \in DOMAIN Walks, p \in Paths : Takes(i, p)' <=> Takes(i, p)
      BY <1>10, TakesSame
    <2>2. \A p \in Paths : Gone(V, p)' <=> Gone(V, p)
      BY <1>10, <2>1 DEF Gone
    <2>3. QED
      BY <1>10, <2>2 DEF WalkInv, TreeInv
  <1>14. VisitedInv(V)'
    BY <1>10, <1>11, <1>12 DEF WalkInv, VisitedInv
  <1>15. \A i \in DOMAIN here : ~IsRoot(here[i]) /\ here[i] \notin V
    <2>1. ASSUME NEW i \in DOMAIN here
          PROVE  ~IsRoot(here[i])
      <3>1. Parent[here[i]] = listing /\ here[i] \in Paths
        BY <1>4
      <3>2. IsRoot(listing) \/ Under(walk, listing)
        BY <1>11 DEF WalkInv, VisitedInv
      <3>3. Under(walk, here[i])
        BY <3>1, <3>2, BelowChild DEF IsRoot, Under
      <3>4. QED
        BY <3>1, <3>3, Acyclic DEF IsRoot, Under
    <2>2. QED
      BY <1>4, <2>1 DEF List, WalkInv, VisitedInv
  <1>16. AheadInv(V)'
    <2>1. ASSUME NEW i \in 1..Len(agenda')
          PROVE  /\ agenda'[i].path \notin V
                 /\ agenda'[i].kind = tree[agenda'[i].path]
                 /\ IsRoot(agenda'[i].path) \/ Parent[agenda'[i].path] \in V
      <3>1. CASE i \in 1..Len(here)
        BY <1>2, <1>4, <1>9, <1>11, <1>15, <3>1
      <3>2. CASE i - Len(here) \in 1..Len(agenda) /\ i = (i - Len(here)) + Len(here)
        <4>1. agenda'[i] = agenda[i - Len(here)]
          BY <1>9, <3>2
        <4>2. QED
          BY <3>2, <4>1 DEF WalkInv, AheadInv
      <3>3. QED
        BY <1>9, <3>1, <3>2
    <2>2. ASSUME NEW i \in 1..Len(here), NEW j \in 1..Len(agenda)
          PROVE  here[i] # agenda[j].path
      <3>1. Parent[here[i]] = listing /\ ~IsRoot(here[i])
        BY <1>2, <1>4, <1>15
      <3>2. IsRoot(agenda[j].path) \/ Parent[agenda[j].path] # listing
        BY DEF WalkInv, AheadInv
      <3>3. QED
        BY <3>1, <3>2
    <2>3. ASSUME NEW i \in 1..Len(agenda'), NEW j \in 1..Len(agenda'),
                 agenda'[i].path = agenda'[j].path
          PROVE  i = j
      <3>1. CASE i \in 1..Len(here) /\ j \in 1..Len(here)
        BY <1>2, <1>3, <1>4, <1>9, <2>3, <3>1
      <3>2. CASE i \in 1..Len(here) /\ j \notin 1..Len(here)
        <4>1. agenda'[i].path = here[i]
          BY <1>2, <1>4, <1>9, <3>2
        <4>2. j - Len(here) \in 1..Len(agenda) /\ agenda'[j] = agenda[j - Len(here)]
          BY <1>9, <3>2
        <4>3. QED
          BY <2>2, <2>3, <3>2, <4>1, <4>2
      <3>3. CASE i \notin 1..Len(here) /\ j \in 1..Len(here)
        <4>1. agenda'[j].path = here[j]
          BY <1>2, <1>4, <1>9, <3>3
        <4>2. i - Len(here) \in 1..Len(agenda) /\ agenda'[i] = agenda[i - Len(here)]
          BY <1>9, <3>3
        <4>3. QED
          BY <2>2, <2>3, <3>3, <4>1, <4>2
      <3>4. CASE i \notin 1..Len(here) /\ j \notin 1..Len(here)
        <4>1. /\ i - Len(here) \in 1..Len(agenda) /\ agenda'[i] = agenda[i - Len(here)]
              /\ j - Len(here) \in 1..Len(agenda) /\ agenda'[j] = agenda[j - Len(here)]
          BY <1>9, <3>4
        <4>2. i - Len(here) = j - Len(here)
          BY <2>3, <4>1 DEF WalkInv, AheadInv
        <4>3. QED
          BY <1>2, <1>6, <1>8, <4>2
      <3>5. QED
        BY <3>1, <3>2, <3>3, <3>4
    <2>4. \A i \in 1..Len(agenda') :
            IsRoot(agenda[i].path)' \/ Parent[agenda'[i].path] \in V \ {listing'}
      BY <1>10, <1>11, <2>1 DEF IsRoot
    <2>5. QED
      BY <1>10, <2>1, <2>3, <2>4 DEF AheadInv
  <1>17. Ahead' = Ahead \cup Children(tree, listing)
    <2>1. Ahead \subseteq Ahead'
      BY <1>9 DEF Ahead
    <2>2. Children(tree, listing) \subseteq Ahead'
      <3>1. ASSUME NEW p \in Children(tree, listing)
            PROVE  p \in Ahead'
        <4>1. PICK i \in DOMAIN here : here[i] = p
          BY <1>3
        <4>2. i \in 1..Len(agenda') /\ agenda'[i].path = p
          BY <1>2, <1>4, <1>9, <4>1
        <4>3. QED
          BY <4>2 DEF Ahead
      <3>2. QED
        BY <3>1
    <2>3. Ahead' \subseteq Ahead \cup Children(tree, listing)
      <3>1. ASSUME NEW i \in 1..Len(agenda')
            PROVE  agenda'[i].path \in Ahead \cup Children(tree, listing)
        <4>1. CASE i \in 1..Len(here)
          BY <1>2, <1>4, <1>9, <4>1
        <4>2. CASE i - Len(here) \in 1..Len(agenda) /\ i = (i - Len(here)) + Len(here)
          <5>1. agenda'[i] = agenda[i - Len(here)]
            BY <1>9, <4>2
          <5>2. QED
            BY <4>2, <5>1 DEF Ahead
        <4>3. QED
          BY <1>9, <4>1, <4>2
      <3>2. QED
        BY <3>1 DEF Ahead
    <2>4. QED
      BY <2>1, <2>2, <2>3
  <1>18. ReachInv(V)'
    <2>1. ASSUME NEW p \in Paths, tree[p] # "none", Parent[p] \in V
          PROVE  p \in V \cup Ahead'
      BY <1>17, <2>1 DEF WalkInv, ReachInv, Children
    <2>2. ASSUME NEW p \in Paths, tree[p] # "none", IsRoot(p)
          PROVE  p \in V \cup Ahead'
      BY <1>11, <1>17, <2>2 DEF WalkInv, ReachInv
    <2>3. QED
      BY <1>10, <1>12, <2>1, <2>2 DEF ReachInv
  <1>19. QED
    BY <1>13, <1>14, <1>16, <1>18 DEF WalkInv

LEMMA SweepInductive == CleanerInv /\ SweepInv /\ [CleanerNext]_cleanerVars => SweepInv'
  <1> SUFFICES ASSUME CleanerInv, SweepInv, [CleanerNext]_cleanerVars, fileEvents' = 0
               PROVE  \E V \in SUBSET Paths : WalkInv(V)'
    BY DEF SweepInv
  <1>1. ASSUME NEW p \in Paths, Creates(p) \/ Deletes(p) \/ OpensOrCloses(p)
        PROVE  FALSE
    <2>1. fileEvents' = fileEvents + 1
      BY <1>1 DEF Creates, Deletes, OpensOrCloses, FileEvent
    <2>2. fileEvents \in Nat
      BY CleanerAssumption DEF CleanerInv, CleanerTypeOK, CleanerAssumption
    <2>3. QED
      BY <2>1, <2>2
  <1>2. fileEvents = 0
    BY <1>1 DEF CleanerNext, cleanerVars, StartWalk, Visit, List
  <1>3. PICK V \in SUBSET Paths : WalkInv(V)
    BY <1>2 DEF SweepInv
  <1>4. CASE StartWalk
    BY <1>3, <1>4, StartWalkSweeps
  <1>5. CASE Visit
    <2>1. Head(agenda).path \in Paths
      <3>1. agenda \in Seq(Entries) /\ agenda # <<>> /\ Len(agenda) \in Nat \ {0}
        BY <1>5, EmptySeq DEF CleanerInv, CleanerTypeOK, Visit, Entries
      <3>2. Head(agenda) \in Entries
        BY <3>1, HeadTailProperties
      <3>3. QED
        BY <3>2 DEF Entries
    <2>2. PICK x \in Paths : x = Head(agenda).path
      BY <2>1
    <2>3. WalkInv(V \cup {x})'
      BY <1>2, <1>3, <1>5, <2>2, VisitSweeps
    <2>4. QED
      BY <2>3
  <1>6. CASE List
    BY <1>2, <1>3, <1>6, ListSweeps
  <1>7. CASE UNCHANGED cleanerVars
    <2>1. \A i \in DOMAIN Walks, p \in Paths : Takes(i, p)' <=> Takes(i, p)
      BY <1>7, TakesSame DEF cleanerVars
    <2>2. \A p \in Paths : Gone(V, p)' <=> Gone(V, p)
      BY <1>7, <2>1 DEF Gone, cleanerVars
    <2>3. TreeInv(V)'
      BY <1>3, <1>7, <2>2 DEF WalkInv, TreeInv, cleanerVars
    <2>4. VisitedInv(V)' /\ AheadInv(V)' /\ ReachInv(V)'
      BY <1>3, <1>7
      DEF WalkInv, VisitedInv, AheadInv, ReachInv, IsRoot, Under, Ahead, cleanerVars
    <2>5. WalkInv(V)'
      BY <2>3, <2>4 DEF WalkInv
    <2>6. QED
      BY <2>5
  <1>8. QED
    BY <1>1, <1>4, <1>5, <1>6, <1>7 DEF CleanerNext

-----------------------------------------------------------------------------
(* The theorems *)

\* The inductive invariants hold in every state of every behaviour.
LEMMA CleanerAlways == CleanerSpec => []CleanerInv
  BY CleanerStart, CleanerInductive, PTL DEF CleanerSpec

LEMMA SweepAlways == CleanerSpec => []SweepInv
  BY CleanerAlways, SweepStart, SweepInductive, PTL DEF CleanerSpec

\* Type correctness: the agenda names paths with the kinds they were listed as.
THEOREM CleanerTypeCorrect == CleanerSpec => []CleanerTypeOK
  <1>1. CleanerInv => CleanerTypeOK
    BY DEF CleanerInv
  <1>2. QED
    BY <1>1, CleanerAlways, PTL

\* Whatever other programs create, delete, replace and lock during a sweep, and
\* whatever the tree is, the cleaner removes only what is below a temporary
\* directory and logs below the directories it scans for them, unless one of them
\* puts a link in place of a directory the walk is in or has still to list:
\* wipeDirectory and scanAndCleanLogs of garbage.go remove by the path a listing
\* gave, long after the listing.
THEOREM OnlyJunkIsRemoved == CleanerSpec => []OnlyJunk
  <1>1. CleanerInv => OnlyJunk
    BY DEF CleanerInv
  <1>2. QED
    BY <1>1, CleanerAlways, PTL

\* A sweep that nobody disturbs comes to every path below the directories it walks
\* over: what it leaves is known to the last path.
LEMMA SweptExactly ==
    ASSUME CleanerInv, SweepInv, walk > Len(Walks), fileEvents = 0
    PROVE  tree = Left
  <1>1. PICK V \in SUBSET Paths : WalkInv(V)
    BY DEF SweepInv
  <1>2. walk \in Nat /\ \A i \in DOMAIN Walks : i < walk
    BY TenWalks DEF CleanerInv, CleanerTypeOK
  <1>3. tree \in [Paths -> Kinds] /\ before \in [Paths -> Kinds]
    BY DEF CleanerInv, CleanerTypeOK
  <1>4. ASSUME NEW p \in Paths
        PROVE  tree[p] = Left[p]
    <2>1. Gone(V, p) <=> Doomed(p)
      BY <1>2, <1>3, DoomedTaken DEF Gone, Takes
    <2>2. QED
      BY <1>1, <2>1 DEF WalkInv, TreeInv, Doomed, Left
  <1>5. QED
    BY <1>3, <1>4 DEF Left

LEMMA FilesGone == CleanerInv /\ SweepInv => FilesSwept
  <1> SUFFICES ASSUME CleanerInv, SweepInv, walk > Len(Walks), fileEvents = 0,
                      NEW p \in Paths, before[p] \in {"file", "link"}
               PROVE  tree[p] = before[p] <=> p \in lockedPaths \/ ~Junk(p)
    BY DEF FilesSwept
  <1>1. Stays(p) <=> p \in lockedPaths \/ ~Junk(p)
    BY DEF Stays, Junk
  <1>2. tree[p] = IF Stays(p) THEN before[p] ELSE "none"
    BY SweptExactly DEF Left
  <1>3. QED
    BY <1>1, <1>2

\* A sweep that nobody disturbs (ExecuteDeepCleanup) removes every junk file and
\* link that is not in use, in any tree and however deep, and no other file.
THEOREM FilesAreSwept == CleanerSpec => []FilesSwept
  BY FilesGone, CleanerAlways, SweepAlways, PTL
==============================================================================
