--------------------------------- MODULE Vfs --------------------------------
(***************************************************************************)
(* Paths, directories and mounts (fs/fs.c), with the lookup of the FAT     *)
(* file system (fs/fat/fat.c) and the empty one of devfs.  A dir_entry is  *)
(* made by the first lookup that finds it on the disk, by mkdir, in memory *)
(* only, and by mount, for a root; it is never removed.  A lookup goes     *)
(* through the children first, the newest one first.                       *)
(*                                                                         *)
(* The state begins where init has mounted the disk, made it the root and  *)
(* gone there (kernel/start.c): nothing of rootfs is reached any more.     *)
(* The kernel is not preempted: each call is one step.  A lookup of an     *)
(* unknown name in a directory made by mkdir or of devfs calls through a   *)
(* null pointer, and one in a file reads it as a directory; what comes of  *)
(* either is left open: such a call is not a step of this module.          *)
(***************************************************************************)
EXTENDS Integers, Sequences

CONSTANTS
    Procs, Names,
    Paths,      \* a path has names, of Names, "." and "..", and may be absolute
    Devs,       \* the paths that are given as a device
    Disk,       \* directory of the disk -> name -> what it names
    RootObj,    \* its root
    FileObjs,   \* its files
    None,       \* in place of an object of the disk
    MaxEntries  \* bound on the entries of all trees

DirObjs == DOMAIN Disk
Objs == DirObjs \cup FileObjs

ASSUME VfsAssumption ==
    /\ RootObj \in DirObjs /\ DirObjs \cap FileObjs = {} /\ None \notin Objs
    /\ Names \cap {".", ".."} = {}
    /\ Paths \cup Devs \subseteq [abs : BOOLEAN, names : Seq(Names \cup {".", ".."})]
    /\ \A o \in DirObjs : DOMAIN Disk[o] \subseteq Names
    /\ \A o \in Objs \ {RootObj} : \E d \in DirObjs, n \in Names :
          n \in DOMAIN Disk[d] /\ Disk[d][n] = o
    /\ \A d, e \in DirObjs : \A m \in DOMAIN Disk[d], n \in DOMAIN Disk[e] :
          /\ Disk[d][m] \in Objs \ {RootObj}
          /\ Disk[d][m] = Disk[e][n] => d = e /\ m = n
    /\ MaxEntries \in Nat \ {0}

VARIABLES
    tree,       \* the entries, in the order they were made
    root, pwd   \* process -> entry

vars == <<tree, root, pwd>>

(* mode, i_private and inode_op of the inode are those of obj; mounted is   *)
(* 0 or mounted_dir; sb is the root of the entry's file system.             *)
Entry(name, parent, obj, sb) ==
    [name |-> name, parent |-> parent, obj |-> obj, sb |-> sb, mounted |-> 0]

Init ==
    /\ tree = <<Entry("/", 1, RootObj, 1)>>
    /\ root = [p \in Procs |-> 1]
    /\ pwd = root

-----------------------------------------------------------------------------
IsDir(t, e) == t[e].obj \notin FileObjs

(* list_add puts a child at the head: the newest comes first. *)
Children(t, d, n) == {e \in DOMAIN t : t[e].parent = d /\ e # d /\ t[e].name = n}
Newest(es) == CHOOSE e \in es : \A f \in es : f <= e

(* From an entry to the root that is mounted on it, on that, and so on.    *)
Resolved(t, e) ==
    LET r[x \in DOMAIN t] == IF t[x].mounted = 0 THEN x ELSE r[t[x].mounted] IN r[e]

NOT_FOUND == 0
FAULT == -1
Result(t, e) == [tree |-> t, at |-> e]

(* fat_lookup: what the disk has becomes a child. *)
fat_lookup_AtRoot(t, d, n) ==           \* mutant: the parent is the root
    IF n \in DOMAIN Disk[t[d].obj]
    THEN Result(Append(t, Entry(n, t[d].sb, Disk[t[d].obj][n], t[d].sb)), Len(t) + 1)
    ELSE Result(t, NOT_FOUND)
fat_lookup(t, d, n) ==
    IF n \in DOMAIN Disk[t[d].obj]
    THEN Result(Append(t, Entry(n, d, Disk[t[d].obj][n], t[d].sb)), Len(t) + 1)
    ELSE Result(t, NOT_FOUND)

lookup_NoChildren(t, d, n) ==           \* mutant: the children are not looked at
    CASE n = "."  -> Result(t, d)
      [] n = ".." -> Result(t, t[d].parent)
      [] n \in Names ->
            IF t[d].obj \in DirObjs THEN fat_lookup(t, d, n) ELSE Result(t, FAULT)
lookup(t, d, n) ==
    CASE n = "."  -> Result(t, d)
      [] n = ".." -> Result(t, t[d].parent)
      [] n \in Names ->
            IF Children(t, d, n) # {} THEN Result(t, Resolved(t, Newest(Children(t, d, n))))
            ELSE IF t[d].obj \in DirObjs THEN fat_lookup(t, d, n)
            ELSE Result(t, FAULT)

(* namei, and get_parent_dir_entry with the path but its last name.        *)
Walk(t, base, path) ==
    LET w[i \in 0 .. Len(path)] ==
            IF i = 0 THEN Result(t, base)
            ELSE IF w[i - 1].at <= 0 THEN w[i - 1]
            ELSE lookup(w[i - 1].tree, w[i - 1].at, path[i])
    IN w[Len(path)]

namei(p, t, path) == Walk(t, IF path.abs THEN root[p] ELSE pwd[p], path.names)

Found(w) == w.at > 0 /\ Len(w.tree) <= MaxEntries
FoundDir(w) == Found(w) /\ IsDir(w.tree, w.at)

(* sys_stat, the lookup of sys_open, and every other call that fails after *)
(* its lookup.                                                             *)
sys_stat(p, path) ==
    LET w == namei(p, tree, path) IN
    /\ w.at # FAULT /\ Len(w.tree) <= MaxEntries
    /\ tree' = w.tree
    /\ UNCHANGED <<root, pwd>>

sys_chdir(p, path) ==
    LET w == namei(p, tree, path) IN
    /\ FoundDir(w)
    /\ tree' = w.tree
    /\ pwd' = [pwd EXCEPT ![p] = w.at]
    /\ UNCHANGED root

sys_chroot(p, path) ==
    LET w == namei(p, tree, path) IN
    /\ FoundDir(w)
    /\ tree' = w.tree
    /\ root' = [root EXCEPT ![p] = w.at]
    /\ UNCHANGED pwd

(* sys_fork: the entry of the parent is copied to that of the child. *)
sys_fork(p, q) ==
    /\ root' = [root EXCEPT ![q] = root[p]]
    /\ pwd' = [pwd EXCEPT ![q] = pwd[p]]
    /\ UNCHANGED tree

(* sys_mkdir begins at the root, whatever the path; whether the name is    *)
(* taken is not asked.                                                     *)
sys_mkdir(p, path, n) ==
    LET w == Walk(tree, root[p], path.names) IN
    /\ FoundDir(w) /\ Len(w.tree) < MaxEntries
    /\ tree' = Append(w.tree, Entry(n, w.at, None, w.tree[w.at].sb))
    /\ UNCHANGED <<root, pwd>>

(* sys_mount: of a directory named as the device only the device counts,   *)
(* here that of the disk.  The directory must not be covered, but a name   *)
(* gives what covers it: mounts of a name pile up.                         *)
Covers_Below(t, d, obj) ==              \* mutant: the parent of a root is what it covers
    Append([t EXCEPT ![d].mounted = Len(t) + 1], Entry("/", d, obj, Len(t) + 1))
Covers(t, d, obj) == Append([t EXCEPT ![d].mounted = Len(t) + 1],
                            Entry("/", Len(t) + 1, obj, Len(t) + 1))

sys_mount(p, dev, path, obj) ==
    LET v == namei(p, tree, dev)
        w == namei(p, v.tree, path) IN
    /\ FoundDir(v) /\ FoundDir(w)
    /\ w.tree[w.at].mounted = 0
    /\ Len(w.tree) < MaxEntries
    /\ tree' = Covers(w.tree, w.at, obj)
    /\ UNCHANGED <<root, pwd>>

Next ==
    \E p \in Procs :
        \/ \E q \in Procs \ {p} : sys_fork(p, q)
        \/ \E path \in Paths :
              \/ \E n \in Names : sys_mkdir(p, path, n)
              \/ sys_stat(p, path) \/ sys_chdir(p, path) \/ sys_chroot(p, path)
              \/ \E dev \in Devs, obj \in {RootObj, None} : sys_mount(p, dev, path, obj)

Spec == Init /\ [][Next]_vars
-----------------------------------------------------------------------------
Entries == DOMAIN tree

(* Type invariant.  Every entry is below an older one of the same file      *)
(* system or is a root, and processes are at directories.                   *)
TypeOK ==
    /\ tree \in Seq([name : Names \cup {"/"}, parent : Nat, obj : Objs \cup {None},
                     sb : Nat, mounted : Nat])
    /\ \A e \in Entries : /\ tree[e].parent \in 1 .. e
                          /\ tree[e].sb = tree[tree[e].parent].sb
                          /\ tree[e].parent = e <=> tree[e].sb = e
    /\ root \in [Procs -> Entries] /\ pwd \in [Procs -> Entries]
    /\ \A p \in Procs : IsDir(tree, root[p]) /\ IsDir(tree, pwd[p])

(* A thing of a mounted disk has one entry, however it is come by, so what *)
(* is known of it (its size, what is mounted on it) is known everywhere     *)
(* (lookup 613-631, fat.c:716-740).                                         *)
CachedOnce ==
    \A e, f \in Entries :
        tree[e].obj # None /\ tree[e].obj = tree[f].obj /\ tree[e].sb = tree[f].sb => e = f

(* Entries as things: those of a disk are all there from the mount on.     *)
ThingOf(t, e) == <<IF t[e].obj = None THEN e ELSE t[e].sb, t[e].obj>>
Disks(t) == {e \in DOMAIN t : t[e].sb = e /\ t[e].obj = RootObj}
Things(t) == {ThingOf(t, e) : e \in DOMAIN t} \cup (Disks(t) \X Objs)
Dirs(t) == {x \in Things(t) : x[2] \notin FileObjs}
Nowhere == <<0, None>>

(* What a thing names, and the thing above it: by the entry, or the disk.  *)
OnDisk(x, n) == IF x[2] \in DirObjs /\ n \in DOMAIN Disk[x[2]] THEN <<x[1], Disk[x[2]][n]>>
                ELSE Nowhere
Known(t, x, n) == {f \in DOMAIN t : /\ t[f].name = n /\ t[f].parent # f
                                    /\ ThingOf(t, t[f].parent) = x}
NameOf(t, x, n) == IF Known(t, x, n) = {} THEN OnDisk(x, n)
                   ELSE ThingOf(t, Resolved(t, Newest(Known(t, x, n))))
Above(o) == IF o = RootObj THEN o
            ELSE CHOOSE d \in DirObjs : \E n \in DOMAIN Disk[d] : Disk[d][n] = o
UpOf(t, x) == IF x[2] = None THEN ThingOf(t, t[x[1]].parent) ELSE <<x[1], Above(x[2])>>

NamesOf(t) == [x \in Things(t) |-> [n \in Names |-> NameOf(t, x, n)]]
UpsOf(t) == [x \in Things(t) |-> UpOf(t, x)]
At(t, place) == [p \in Procs |-> ThingOf(t, place[p])]

Abstract == INSTANCE NameSpace WITH
    None <- Nowhere, things <- Things(tree), dirs <- Dirs(tree),
    names <- NamesOf(tree), up <- UpsOf(tree),
    root <- At(tree, root), pwd <- At(tree, pwd)

(* The cache of entries is not seen: what a path names depends on what was *)
(* made and mounted, never on what was looked up before.                   *)
NameSpaceSpec == Abstract!Spec
=============================================================================
