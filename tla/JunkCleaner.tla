----------------------------- MODULE JunkCleaner -----------------------------
(***************************************************************************)
(* The junk cleaner (cleaner/garbage.go): ExecuteDeepCleanup walks over    *)
(* the temporary directories twice, for their files and for the            *)
(* directories left empty, and then over two trees for their logs, while   *)
(* other programs create, delete and lock what is in them.  A walk visits  *)
(* a directory before it lists it, and lists it before it visits what is   *)
(* in it.  The counts of the sweep's metrics are left out.                 *)
(***************************************************************************)
EXTENDS Naturals, Sequences, FiniteSets

CONSTANTS
    Order,          \* the paths there may be, in the order of a listing
    Parent,         \* the directory of each path, Outside for a top one
    Outside,
    LogNamed,       \* the paths whose name ends in .log
    UserTemp, SystemTemp, PrefetchDir, CrashDumps, LocalAppData,
    Elsewhere,      \* the directory that links lead to
    Trees,          \* the trees a sweep may start on
    MaxFileEvents   \* bound on what other programs do during a sweep

Paths == {Order[i] : i \in DOMAIN Order}

\* A link is a symbolic link or a junction.  A listing of the directory it is in
\* does not take it for a directory.
Kinds == {"none", "dir", "file", "link"}

ASSUME CleanerAssumption ==
    /\ Order \in Seq(Paths) /\ Outside \notin Paths
    /\ \A i, j \in DOMAIN Order : Order[i] = Order[j] => i = j
    /\ Parent \in [Paths -> Paths \cup {Outside}]
    /\ {UserTemp, SystemTemp, PrefetchDir, CrashDumps, LocalAppData, Elsewhere}
           \subseteq Paths
    /\ LogNamed \subseteq Paths
    /\ Trees \subseteq [Paths -> Kinds]
    /\ MaxFileEvents \in Nat

Wiped == {UserTemp, SystemTemp, PrefetchDir, CrashDumps}
Scanned == {UserTemp, LocalAppData}

\* The path is somewhere below the directory.
Below[p \in Paths \cup {Outside}] ==
    IF p = Outside THEN {} ELSE {Parent[p]} \cup Below[Parent[p]]

\* The directories above those the sweep goes over.
AboveRoots == UNION {Below[r] : r \in Wiped \cup Scanned}

\* The directories that are scanned for logs are not named like one: they are
\* Temp and AppData\Local.
ASSUME ScannedAssumption == {UserTemp, LocalAppData} \cap LogNamed = {}

\* Who goes up from a path comes to the top.
ASSUME TreeAssumption ==
    \A S \in SUBSET Paths : S # {} => \E p \in S : Parent[p] \notin S

\* The temporary directories are four, and none is below another one.
ASSUME WipedAssumption ==
    /\ UserTemp \notin {SystemTemp, PrefetchDir, CrashDumps}
    /\ SystemTemp \notin {PrefetchDir, CrashDumps} /\ PrefetchDir # CrashDumps
    /\ \A r \in Wiped : Below[r] \cap Wiped = {}

\* What there is is in a directory, and no link leads to the directories the
\* sweep goes over.
ASSUME InsideAssumption ==
    \A t \in Trees : \A p \in Paths :
        /\ t[p] # "none" /\ Parent[p] # Outside => t[Parent[p]] = "dir"
        /\ t[p] = "link" => p \notin AboveRoots

VARIABLES
    tree,       \* what there is at each path
    lockedPaths,    \* the paths another program has open
    walk,       \* the number of the walk, 0 before the sweep
    agenda,     \* what it has still to visit: paths with what they were listed as
    listing,    \* the directory it is about to list, or Outside
    before,     \* the tree the sweep started on
    removed,    \* the paths the sweep has removed
    fileEvents, \* what other programs have done since
    relinked    \* one of them has put a link in place of a directory of the walk

cleanerVars ==
    <<tree, lockedPaths, walk, agenda, listing, before, removed, fileEvents, relinked>>

\* wipeDirectory walks twice.
Wipe(root) == <<[pass |-> "files", root |-> root], [pass |-> "dirs", root |-> root]>>

ScanLogs(root) == <<[pass |-> "logs", root |-> root]>>

\* The walks of ExecuteDeepCleanup.
Walks == Wipe(UserTemp) \o Wipe(SystemTemp) \o Wipe(PrefetchDir) \o Wipe(CrashDumps)
             \o ScanLogs(UserTemp) \o ScanLogs(LocalAppData)

CleanerTypeOK ==
    /\ tree \in [Paths -> Kinds] /\ before \in [Paths -> Kinds]
    /\ lockedPaths \subseteq Paths /\ removed \subseteq Paths
    /\ walk \in 0..(Len(Walks) + 1)
    /\ agenda \in Seq([path : Paths, kind : {"dir", "file", "link"}])
    /\ listing \in Paths \cup {Outside}
    /\ fileEvents \in 0..MaxFileEvents /\ relinked \in BOOLEAN

Children(t, dir) == {p \in Paths : Parent[p] = dir /\ t[p] # "none"}

\* A listing of a directory has what is in it, in the order of Order.
Precedes(p, q) == \E i, j \in DOMAIN Order : i < j /\ Order[i] = p /\ Order[j] = q

Listings(t, dir) ==
    LET inside == Children(t, dir)
    IN  {s \in [1..Cardinality(inside) -> inside] :
            \A i, j \in DOMAIN s : i < j => Precedes(s[i], s[j])}

CleanerInit ==
    /\ tree \in Trees
    /\ lockedPaths \in {{}} \cup {{p} : p \in {q \in Paths : tree[q] = "file"}}
    /\ walk = 0
    /\ agenda = <<>>
    /\ listing = Outside
    /\ before = tree
    /\ removed = {}
    /\ fileEvents = 0
    /\ relinked = FALSE

-----------------------------------------------------------------------------
(* Other programs *)

FileEvent ==
    /\ walk \in DOMAIN Walks
    /\ fileEvents < MaxFileEvents
    /\ fileEvents' = fileEvents + 1
    /\ UNCHANGED <<walk, agenda, listing, before, removed>>

\* A directory the walk has still to list, or one above what it has still to visit.
Treads(d) ==
    \/ d = listing \/ d \in Below[listing]
    \/ \E i \in DOMAIN agenda :
          d \in Below[agenda[i].path] \/ (d = agenda[i].path /\ agenda[i].kind = "dir")

Creates(p) ==
    /\ FileEvent
    /\ tree[p] = "none" /\ Parent[p] # Outside /\ tree[Parent[p]] = "dir"
    /\ \E kind \in Kinds \ {"none"} :
          /\ kind = "link" => p \notin AboveRoots
          /\ tree' = [tree EXCEPT ![p] = kind]
          /\ relinked' = (relinked \/ (kind = "link" /\ Treads(p)))
    /\ UNCHANGED lockedPaths

Deletes(p) ==
    /\ FileEvent
    /\ tree[p] # "none" /\ Parent[p] # Outside
    /\ p \notin lockedPaths /\ Children(tree, p) = {}
    /\ tree' = [tree EXCEPT ![p] = "none"]
    /\ UNCHANGED <<lockedPaths, relinked>>

OpensOrCloses(p) ==
    /\ FileEvent
    /\ tree[p] = "file"
    /\ lockedPaths' = IF p \in lockedPaths THEN lockedPaths \ {p} ELSE lockedPaths \cup {p}
    /\ UNCHANGED <<tree, relinked>>

-----------------------------------------------------------------------------
(* The sweep *)

\* A walk starts at its root, if there is such a directory.
StartWalk ==
    /\ agenda = <<>> /\ listing = Outside
    /\ walk <= Len(Walks)
    /\ walk' = walk + 1
    /\ agenda' = IF walk' \in DOMAIN Walks /\ tree[Walks[walk'].root] # "none"
                 THEN <<[path |-> Walks[walk'].root, kind |-> tree[Walks[walk'].root]]>>
                 ELSE <<>>
    /\ UNCHANGED <<tree, lockedPaths, listing, before, removed, fileEvents, relinked>>

\* Mutant: the root is removed like what is in it.
TargetsRootToo(w, entry) ==
    CASE w.pass = "files" -> entry.kind # "dir"
      [] w.pass = "dirs"  -> entry.kind = "dir"
      [] w.pass = "logs"  -> entry.kind # "dir" /\ entry.path \in LogNamed

\* What the walk tries to remove.
Targets(w, entry) ==
    CASE w.pass = "files" -> entry.path # w.root /\ entry.kind # "dir"
      [] w.pass = "dirs"  -> entry.path # w.root /\ entry.kind = "dir"
      [] w.pass = "logs"  -> entry.kind # "dir" /\ entry.path \in LogNamed

\* Where the program comes to under the name of a path: there, unless a directory
\* above is a link by now; then to some path below the one it leads to, or to none.
Leads(p) ==
    IF \E d \in Below[p] \ {Outside} : tree[d] = "link"
    THEN {p} \cup {q \in Paths : Elsewhere \in Below[q]}
    ELSE {p}

\* os.Remove removes a file that nobody has open, a link, and a directory that is
\* empty, whichever of them is at the path by now.
Removable(p) == tree[p] # "none" /\ p \notin lockedPaths /\ Children(tree, p) = {}

\* Mutant: a file that cannot be removed ends the walk.
VisitGivesUp ==
    /\ agenda # <<>> /\ listing = Outside
    /\ \E there \in Leads(Head(agenda).path) :
          LET entry == Head(agenda)
              tried == Targets(Walks[walk], entry)
              hit == tried /\ Removable(there)
          IN  /\ tree' = IF hit THEN [tree EXCEPT ![there] = "none"] ELSE tree
              /\ removed' = IF hit THEN removed \cup {there} ELSE removed
              /\ listing' = IF entry.kind = "dir" THEN entry.path ELSE Outside
              /\ agenda' = IF tried /\ ~hit /\ entry.kind # "dir" THEN <<>> ELSE Tail(agenda)
    /\ UNCHANGED <<lockedPaths, walk, before, fileEvents, relinked>>

Visit ==
    /\ agenda # <<>> /\ listing = Outside
    /\ \E there \in Leads(Head(agenda).path) :
          LET entry == Head(agenda)
              hit == Targets(Walks[walk], entry) /\ Removable(there)
          IN  /\ tree' = IF hit THEN [tree EXCEPT ![there] = "none"] ELSE tree
              /\ removed' = IF hit THEN removed \cup {there} ELSE removed
              /\ listing' = IF entry.kind = "dir" THEN entry.path ELSE Outside
    /\ agenda' = Tail(agenda)
    /\ UNCHANGED <<lockedPaths, walk, before, fileEvents, relinked>>

\* What is in the directory is put before the rest.  If there is no such
\* directory any more, the walk goes on with the rest; if a link has taken its
\* place, with what is in the directory the link leads to.
List ==
    /\ listing # Outside
    /\ \E there \in Leads(listing) :
          \E here \in Listings(tree, IF tree[there] = "link" THEN Elsewhere ELSE there) :
             agenda' = [i \in DOMAIN here |-> [path |-> here[i], kind |-> tree[here[i]]]]
                           \o agenda
    /\ listing' = Outside
    /\ UNCHANGED <<tree, lockedPaths, walk, before, removed, fileEvents, relinked>>

CleanerNext ==
    \/ \E p \in Paths : Creates(p) \/ Deletes(p) \/ OpensOrCloses(p)
    \/ StartWalk \/ Visit \/ List

CleanerSpec == CleanerInit /\ [][CleanerNext]_cleanerVars

-----------------------------------------------------------------------------
(* Properties *)

\* What is below a temporary directory, and logs below the directories that are
\* scanned for them.
Junk(p) == Below[p] \cap Wiped # {} \/ (p \in LogNamed /\ Below[p] \cap Scanned # {})

\* Nothing but junk is removed, never a temporary directory itself, although the
\* names are from listings made before other programs create, delete and replace
\* what they name, links included.  Except: when a link is put in place of a
\* directory the walk is in or has still to list, the walk goes where it leads,
\* and what it does from then on is not claimed to keep to the junk.
OnlyJunk == ~relinked => \A p \in removed : Junk(p)

\* A sweep that nobody interferes with removes the junk files and links, however
\* deep they are and although some cannot be removed, but those in use, and leaves
\* the other files.
FilesSwept ==
    walk > Len(Walks) /\ fileEvents = 0 =>
        \A p \in Paths :
            before[p] \in {"file", "link"} =>
                (tree[p] = before[p] <=> p \in lockedPaths \/ ~Junk(p))

\* After the comments of wipeDirectory, which "deletes all contents safely" and
\* in a second pass goes to "remove empty subdirectories": no directory below a
\* temporary directory is left empty by a sweep that nobody interferes with.  The
\* second walk comes to a directory before it comes to those inside it, so one that
\* held nothing but directories stays, empty.
EmptyDirsRemoved ==
    walk > Len(Walks) /\ fileEvents = 0 =>
        \A p \in Paths :
            tree[p] = "dir" /\ Below[p] \cap Wiped # {} => Children(tree, p) # {}
=============================================================================
