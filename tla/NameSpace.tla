------------------------------ MODULE NameSpace -----------------------------
(***************************************************************************)
(* What the paths of fs/fs.c promise: every directory gives names to       *)
(* things and has one directory above it.  Looking something up changes    *)
(* nothing; mkdir gives one name; mount puts new things in place of one    *)
(* directory, wherever it had a name.                                      *)
(***************************************************************************)
EXTENDS Integers, Sequences

CONSTANTS Procs, Names, Paths,
          None      \* no thing

VARIABLES
    things,     \* that there are
    dirs,       \* those that are directories
    names,      \* thing -> name -> the thing so named, or None
    up,         \* thing -> the thing that .. is
    root, pwd   \* process -> thing

vars == <<things, dirs, names, up, root, pwd>>

Nothing == [n \in Names |-> None]

(* A first tree of things, closed under its names; all processes are at its *)
(* root.                                                                    *)
Init ==
    /\ dirs \subseteq things
    /\ names \in [things -> [Names -> things \cup {None}]]
    /\ \E r \in dirs : up[r] = r /\ root = [p \in Procs |-> r] /\ pwd = root

(* The thing at the end of a path. *)
Walk(x, path) ==
    LET given == names
        above == up
        w[i \in 0 .. Len(path)] ==
            IF i = 0 THEN x
            ELSE IF w[i - 1] = None THEN None
            ELSE IF path[i] = "." THEN w[i - 1]
            ELSE IF path[i] = ".." THEN above[w[i - 1]]
            ELSE given[w[i - 1]][path[i]]
    IN w[Len(path)]

Named(p, path) == Walk(IF path.abs THEN root[p] ELSE pwd[p], path.names)

(* Any lookup. *)
Look == UNCHANGED vars

Chdir(p, path) ==
    /\ UNCHANGED <<things, root>> /\ UNCHANGED <<dirs, names, up>>
    /\ LET x == Named(p, path) IN x \in dirs /\ pwd' = [pwd EXCEPT ![p] = x]

Chroot(p, path) ==
    /\ UNCHANGED <<things, pwd>> /\ UNCHANGED <<dirs, names, up>>
    /\ LET x == Named(p, path) IN x \in dirs /\ root' = [root EXCEPT ![p] = x]

Fork(p, q) ==
    /\ UNCHANGED things /\ UNCHANGED <<dirs, names, up>>
    /\ root' = [root EXCEPT ![q] = root[p]]
    /\ pwd' = [pwd EXCEPT ![q] = pwd[p]]

(* Relative paths begin at the root, too. *)
Mkdir(p, path, n) ==
    /\ things' # things /\ UNCHANGED <<root, pwd>>
    /\ LET d == Walk(root[p], path.names)
           old == names
           above == up
       IN /\ d \in dirs
          /\ \E y \in things' \ things :
                /\ things' = things \cup {y} /\ dirs' = dirs \cup {y}
                /\ names' = [x \in things \cup {y} |->
                                 IF x = y THEN Nothing
                                 ELSE IF x = d THEN [old[d] EXCEPT ![n] = y] ELSE old[x]]
                /\ up' = [x \in things \cup {y} |-> IF x = y THEN d ELSE above[x]]

(* New things, apart from the old ones, whose root replaces x.             *)
Mount(p, path) ==
    /\ things' # things /\ UNCHANGED <<root, pwd>>
    /\ LET x == Named(p, path)
           old == names
           oldup == up
           is  == names'
           isup == up'
           new == things' \ things
       IN /\ x \in dirs
          /\ things \subseteq things' /\ dirs' \cap things = dirs
          /\ \E r \in dirs' \cap new :
                /\ isup[r] = r
                /\ \A y \in things : is[y] = [n \in Names |-> IF old[y][n] = x THEN r ELSE old[y][n]]
          /\ \A y \in things : isup[y] = oldup[y]
          /\ \A y \in new : isup[y] \in new /\ \A n \in Names : is[y][n] \in new \cup {None}

Next ==
    \/ Look
    \/ \E p \in Procs :
        \/ \E q \in Procs : Fork(p, q)
        \/ \E path \in Paths :
              \/ \E n \in Names : Mkdir(p, path, n)
              \/ Chdir(p, path) \/ Chroot(p, path) \/ Mount(p, path)

Spec == Init /\ [][Next]_vars
=============================================================================
