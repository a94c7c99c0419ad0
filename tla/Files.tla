------------------------------- MODULE Files -------------------------------
(***************************************************************************)
(* Open files: the table of Files with their reference counts, the         *)
(* descriptors of every process, the table of in-memory inodes, path       *)
(* lookup, and the system calls on them (plix/sysfile.d, plix/fs/file.d,   *)
(* plix/fs/fs.d, plix/proc.d).                                             *)
(*                                                                         *)
(* A system call runs with interrupts off and never yields, so it is one   *)
(* step.  What files contain, offsets and permissions are left out; the    *)
(* copies of a disk inode's fields in memory are too, because every change *)
(* is followed by update().  The disk is read and written as if there were *)
(* no buffer cache.                                                        *)
(***************************************************************************)
EXTENDS Integers, SequencesExt, FiniteSetsExt

CONSTANTS
    Procs,     \* addresses of Procs
    NFile,     \* NFILE: length of the table of Files
    NOfile,    \* Proc.nofile: descriptors of a process
    NInode,    \* NINODE: length of the table of inodes
    Inums,     \* inode numbers of the disk
    Root,      \* ROOTINO
    Names,     \* names of directory entries
    Disk0,     \* the disk at boot: [type, dents], each a function of the inode number
    Paths,     \* paths that programs use: [abs, elems]
    MaxOdd,    \* bound: the calls counted by odd
    Null

FileSlots == 1 .. NFile
Fds == 0 .. NOfile - 1
Slots == 1 .. NInode
Disks == [type : [Inums -> {"free", "dir", "file", "device"}],
          dents : [Inums -> Seq([name : Names, inum : Inums \union {0}])]]

\* The root and what entries of directories name are inodes in use.
Leads(d) ==
    /\ d.type[Root] # "free"
    /\ \A n \in Inums : d.type[n] = "dir" =>
        \A i \in DOMAIN d.dents[n] :
            d.dents[n][i].inum # 0 => d.type[d.dents[n][i].inum] # "free"

ASSUME FilesAssumption ==
    /\ NFile \in Nat /\ NFile >= 2 /\ NOfile \in Nat /\ NOfile >= 2
    /\ NInode \in Nat \ {0}
    /\ Inums \subseteq Nat \ {0} /\ Root \in Inums
    /\ Disk0 \in Disks /\ Disk0.type[Root] = "dir" /\ Leads(Disk0)
    /\ \A n \in Inums : Disk0.type[n] = "dir" => Disk0.dents[n] # <<>>
    /\ Paths \subseteq [abs : BOOLEAN, elems : Seq(Names)]
    /\ MaxOdd \in Nat \ {0}
    /\ Null \notin Slots \union FileSlots

VARIABLES
    file,   \* files[]: [FileSlots -> [refcnt, type, ip]]
    ofile,  \* descriptors of the processes that exist: [proc -> [Fds -> file]]
    cwd,    \* current directories of these: [proc -> slot]
    itab,   \* itable: [ref: [Slots -> Int], inum: [Slots -> Inums]]
    disk,   \* types and directory entries on disk
    panic,  \* "none", or the assertion that failed
    odd     \* history: how many calls were of the kinds that miscount (a relative
            \* path, dup, close or fstat of a console descriptor)

vars == <<file, ofile, cwd, itab, disk, panic, odd>>

Init ==
    /\ file = [f \in FileSlots |->
                 [refcnt |-> IF f <= 2 THEN 1 ELSE 0,
                  type |-> IF f <= 2 THEN "DEVICE" ELSE "NONE", ip |-> Null]]
    /\ \E p \in Procs :
        /\ ofile = [q \in {p} |-> [d \in Fds |-> IF d <= 1 THEN d + 1 ELSE Null]]
        /\ cwd = [q \in {p} |-> 1]
    /\ itab = [ref |-> [s \in Slots |-> IF s = 1 THEN 1 ELSE 0],
               inum |-> [s \in Slots |-> Root]]
    /\ disk = Disk0
    /\ panic = "none"
    /\ odd = 0
-----------------------------------------------------------------------------
(* The inode table.  A walk w is a lookup on its way: the table t, the     *)
(* inode ip reached (Null once it has failed) and the assertion that       *)
(* failed, if any.                                                         *)

Going(w) == w.ip # Null /\ w.panic = "none"

\* put.  The case nlink = 0 only arises when create fails: see CreateFails.
Put(t, s) == [t EXCEPT !.ref[s] = @ - 1]

\* Entry s is inode n's, with ref references, and w has reached it.
Reach(w, s, n, ref) ==
    [t |-> [ref |-> [w.t.ref EXCEPT ![s] = ref], inum |-> [w.t.inum EXCEPT ![s] = n]],
     ip |-> s, panic |-> w.panic]

\* Faulty iget: takes an empty entry without looking for the inode first.
IgetFresh(w, n) ==
    LET empty == {s \in Slots : w.t.ref[s] = 0}
    IN  IF empty = {} THEN [w EXCEPT !.panic = "inodes"]
        ELSE Reach(w, Min(empty), n, 1)

\* iget: the entry of inode n, or else the first empty one.
Iget(w, n) ==
    LET found == {s \in Slots : w.t.ref[s] > 0 /\ w.t.inum[s] = n}
        empty == {s \in Slots : w.t.ref[s] = 0}
    IN  IF found # {} THEN Reach(w, Min(found), n, w.t.ref[Min(found)] + 1)
        ELSE IF empty # {} THEN Reach(w, Min(empty), n, 1)
        ELSE [w EXCEPT !.panic = "inodes"]

TypeOf(w) == disk.type[w.t.inum[w.ip]]

\* lock: asserts that somebody holds a reference, and that an inode it reads from
\* disk is in use (which the inode of an open File, read when it was opened, is).
Lock(w) ==
    IF ~Going(w) THEN w
    ELSE IF w.t.ref[w.ip] < 1 THEN [w EXCEPT !.panic = "refcnt"]
    ELSE IF TypeOf(w) = "free" THEN [w EXCEPT !.panic = "type"]
    ELSE w

\* unlockput, and no result.
Fail(w) == [w EXCEPT !.t = Put(@, w.ip), !.ip = Null]

\* lookup: the inode number of the first entry with that name, or 0.
Lookup(w, name) ==
    LET dents == disk.dents[w.t.inum[w.ip]]
        hits == {i \in DOMAIN dents : dents[i].inum # 0 /\ dents[i].name = name}
    IN  IF hits = {} THEN 0 ELSE dents[Min(hits)].inum

\* From dir go on to inode n, which is in the table before dir is put.
GoOn(dir, n) ==
    LET next == Iget(dir, n)
    IN  IF Going(next) THEN [next EXCEPT !.t = Put(@, dir.ip)] ELSE next

\* namex, one element of the path.
Step(w, name) ==
    LET dir == Lock(w)
    IN  IF ~Going(dir) THEN dir
        ELSE IF TypeOf(dir) # "dir" \/ Lookup(dir, name) = 0 THEN Fail(dir)
        ELSE GoOn(dir, Lookup(dir, name))

\* Faulty: the root is used without a reference too.
FromUncounted(p, path) ==
    LET w == [t |-> itab, ip |-> cwd[p], panic |-> "none"]
        root == Iget(w, Root)
    IN  IF path.abs THEN [root EXCEPT !.t = Put(@, root.ip)] ELSE w

\* Where a path starts: at the root, with a reference, or in the current
\* directory, without one.
From(p, path) ==
    LET w == [t |-> itab, ip |-> cwd[p], panic |-> "none"]
    IN  IF path.abs THEN Iget(w, Root) ELSE w

\* Where the first n elements lead.
Walk(w, elems, n) ==
    LET at[k \in 0 .. n] == IF k = 0 THEN w ELSE Step(at[k - 1], elems[k])
    IN  at[n]

Namei(p, path) == Walk(From(p, path), path.elems, Len(path.elems))

\* nameiparent: the directory that the last element is looked up in.
NameiParent(p, path) ==
    LET dir == Lock(Walk(From(p, path), path.elems, Len(path.elems) - 1))
    IN  IF path.elems = <<>> THEN Fail(From(p, path))
        ELSE IF Going(dir) /\ TypeOf(dir) # "dir" THEN Fail(dir) ELSE dir
-----------------------------------------------------------------------------
(* System calls of a process p.                                            *)

\* A behaviour is followed up to MaxOdd calls of the kinds that odd counts.
Runs(p) == panic = "none" /\ odd < MaxOdd /\ p \in DOMAIN ofile

Count(b) == IF b THEN 1 ELSE 0

\* An assertion fails: the kernel stops where it is.
Panic(why) == panic' = why /\ UNCHANGED <<file, ofile, cwd, itab, disk>>

\* The call returns -1; what the lookup did to the table stays.
Return(w) == itab' = w.t /\ UNCHANGED <<file, ofile, cwd, panic>>

\* A lookup that did not end at an inode.
NotFound(w) ==
    \/ w.panic # "none" /\ Panic(w.panic)
    \/ w.panic = "none" /\ w.ip = Null /\ Return(w) /\ UNCHANGED disk

FreeFiles == {f \in FileSlots : file[f].refcnt = 0}
FreeFds(p) == {d \in Fds : ofile[p][d] = Null}

\* The second half of sys_open: a File and a descriptor for inode w.ip.  The File
\* takes over its reference; without one of the two the inode is put.
OpenFile(p, w, type) ==
    IF FreeFiles = {} \/ FreeFds(p) = {} THEN Return(Fail(w))
    ELSE LET f == Min(FreeFiles)
         IN  /\ file' = [file EXCEPT ![f] =
                   [refcnt |-> 1, ip |-> w.ip,
                    type |-> IF type = "device" THEN "DEVICE" ELSE "INODE"]]
             /\ ofile' = [ofile EXCEPT ![p][Min(FreeFds(p))] = f]
             /\ itab' = w.t
             /\ UNCHANGED <<cwd, panic>>

\* sys_open without CREATE.
Open(p, path, rdonly) ==
    LET w == Lock(Namei(p, path))
    IN  /\ Runs(p)
        /\ \/ NotFound(w)
           \/ /\ Going(w)
              /\ IF TypeOf(w) = "dir" /\ ~rdonly THEN Return(Fail(w))
                 ELSE OpenFile(p, w, TypeOf(w))
              /\ UNCHANGED disk
        /\ odd' = odd + Count(~path.abs)

\* create, when the name exists: a file or a device is opened.
CreateExisting(p, w) ==
    \/ NotFound(w)
    \/ /\ Going(w)
       /\ IF TypeOf(w) = "dir" THEN Return(Fail(w)) ELSE OpenFile(p, w, TypeOf(w))
       /\ UNCHANGED disk

\* link: the first free entry, or a new one behind the last, gets the inode number
\* and keeps the name that was last read into de, not the one asked for.
Link(dents, n) ==
    LET free == {i \in DOMAIN dents : dents[i].inum = 0}
    IN  IF free # {} THEN [dents EXCEPT ![Min(free)].inum = n]
        ELSE Append(dents, [name |-> Last(dents).name, inum |-> n])

\* create, when it does not: inode n becomes a file and gets an entry in dir.
CreateNew(p, dir, n) ==
    LET w == GoOn(dir, n)
        dnum == dir.t.inum[dir.ip]
    IN  \/ NotFound(w)
        \/ /\ Going(w)
           /\ OpenFile(p, w, "file")
           /\ disk' = [type |-> [disk.type EXCEPT ![n] = "file"],
                       dents |-> [disk.dents EXCEPT ![dnum] = Link(@, n)]]

\* The same, but no block is left for the entry: the inode is freed by its put.
CreateFails(dir, n) ==
    LET w == GoOn(dir, n)
    IN  Going(w) /\ Return(Fail(w)) /\ UNCHANGED disk

\* sys_open with CREATE.
Create(p, path) ==
    LET dir == NameiParent(p, path)
        n == Lookup(dir, Last(path.elems))
        freeInums == {i \in Inums : disk.type[i] = "free"}
    IN  /\ Runs(p)
        /\ \/ NotFound(dir)
           \/ Going(dir) /\ n # 0 /\ CreateExisting(p, Lock(GoOn(dir, n)))
           \/ Going(dir) /\ n = 0 /\ freeInums = {} /\ Return(Fail(dir)) /\ UNCHANGED disk
           \/ /\ Going(dir) /\ n = 0 /\ freeInums # {}
              /\ \/ CreateNew(p, dir, Min(freeInums))
                 \/ CreateFails(dir, Min(freeInums))
        /\ odd' = odd + Count(~path.abs)

\* Faulty close: the inode is put with every descriptor.
ClosePutsAlways(p, d) ==
    LET f == ofile[p][d]
    IN  /\ Runs(p) /\ ofile[p][d] # Null
        /\ file[f].refcnt >= 1 /\ file[f].ip # Null
        /\ ofile' = [ofile EXCEPT ![p][d] = Null]
        /\ file' = [file EXCEPT ![f].refcnt = @ - 1,
                                ![f].type = IF file[f].refcnt > 1 THEN @ ELSE "NONE"]
        /\ itab' = Put(itab, file[f].ip)
        /\ odd' = odd
        /\ UNCHANGED <<cwd, disk, panic>>

\* sys_close and File.close.  The type of a console file is DEVICE too, but it has no
\* inode to put.
Close(p, d) ==
    LET f == ofile[p][d]
        last == file[f].refcnt = 1
        put == last /\ file[f].type \in {"INODE", "DEVICE"}
    IN  /\ Runs(p) /\ ofile[p][d] # Null
        /\ IF file[f].refcnt < 1 THEN Panic("refcnt")
           ELSE IF put /\ file[f].ip = Null THEN Panic("null")
           ELSE /\ ofile' = [ofile EXCEPT ![p][d] = Null]
                /\ file' = [file EXCEPT ![f] = [refcnt |-> @.refcnt - 1, ip |-> @.ip,
                                                type |-> IF last THEN "NONE" ELSE @.type]]
                /\ itab' = IF put THEN Put(itab, file[f].ip) ELSE itab
                /\ UNCHANGED <<cwd, disk, panic>>
        /\ odd' = odd + Count(d \in {0, 1})

\* sys_dup stores the pointer a second time.
Dup(p, d) ==
    /\ Runs(p) /\ ofile[p][d] # Null /\ FreeFds(p) # {}
    /\ ofile' = [ofile EXCEPT ![p][Min(FreeFds(p))] = ofile[p][d]]
    /\ odd' = odd + 1
    /\ UNCHANGED <<file, cwd, itab, disk, panic>>

\* sys_fstat, which locks the inode.
Fstat(p, d) ==
    LET f == file[ofile[p][d]]
    IN  /\ Runs(p) /\ ofile[p][d] # Null /\ f.type # "NONE"
        /\ panic' = IF f.ip = Null THEN "null"
                    ELSE IF itab.ref[f.ip] < 1 THEN "refcnt" ELSE panic
        /\ odd' = odd + Count(d \in {0, 1})
        /\ UNCHANGED <<file, ofile, cwd, itab, disk>>

\* sys_read and sys_write: the console needs no inode, a closed File fails.
ReadWrite(p, d) ==
    LET f == file[ofile[p][d]]
    IN  /\ Runs(p) /\ ofile[p][d] # Null
        /\ panic' = IF f.type = "NONE" THEN "type"
                    ELSE IF f.type = "INODE" /\ itab.ref[f.ip] < 1 THEN "refcnt" ELSE panic
        /\ UNCHANGED <<file, ofile, cwd, itab, disk, odd>>

\* sys_chdir
Chdir(p, path) ==
    LET w == Lock(Namei(p, path))
    IN  /\ Runs(p)
        /\ \/ NotFound(w)
           \/ /\ Going(w) /\ TypeOf(w) # "dir"
              /\ Return(Fail(w)) /\ UNCHANGED disk
           \/ /\ Going(w) /\ TypeOf(w) = "dir"
              /\ itab' = Put(w.t, cwd[p])
              /\ cwd' = [cwd EXCEPT ![p] = w.ip]
              /\ UNCHANGED <<file, ofile, disk, panic>>
        /\ odd' = odd + Count(~path.abs)

\* make_empty: two new Files for the console.  Their ip is what the slot held.
NewFiles(two) ==
    [f \in FileSlots |->
        IF f \in two THEN [refcnt |-> 1, type |-> "DEVICE", ip |-> file[f].ip] ELSE file[f]]

\* Faulty: fork copies the descriptors without counting them.
InheritedUncounted(p, f) == 0

\* How often fork counts File f: once for each descriptor of the parent.
Inherited(p, f) == Cardinality({d \in Fds : ofile[p][d] = f})

\* fork: make_from_parent gives the child new console Files and then every
\* descriptor of the parent instead.
Fork(p, child) ==
    LET first == Min(FreeFiles)
        second == Min(FreeFiles \ {first})
        new == NewFiles({first, second})
        own(d) == CASE d = 0 -> first [] d = 1 -> second [] OTHER -> Null
    IN  /\ Runs(p) /\ child \notin DOMAIN ofile
        /\ IF Cardinality(FreeFiles) < 2 THEN Panic("files")
           ELSE IF \E d \in Fds : ofile[p][d] # Null /\ new[ofile[p][d]].refcnt < 1
           THEN Panic("refcnt")
           ELSE /\ file' = [f \in FileSlots |-> [new[f] EXCEPT !.refcnt = @ + Inherited(p, f)]]
                /\ ofile' = [q \in DOMAIN ofile \union {child} |->
                       IF q # child THEN ofile[q]
                       ELSE [d \in Fds |-> IF ofile[p][d] # Null THEN ofile[p][d] ELSE own(d)]]
                /\ cwd' = [q \in DOMAIN cwd \union {child} |-> IF q = child THEN cwd[p] ELSE cwd[q]]
                /\ itab' = [itab EXCEPT !.ref[cwd[p]] = @ + 1]
                /\ UNCHANGED <<disk, panic>>
        /\ UNCHANGED odd

\* A fork that runs out of memory frees the child and not its Files.
ForkFails(p) ==
    LET first == Min(FreeFiles)
    IN  /\ Runs(p) /\ Cardinality(FreeFiles) >= 2
        /\ file' = NewFiles({first, Min(FreeFiles \ {first})})
        /\ UNCHANGED <<ofile, cwd, itab, disk, panic, odd>>

\* Faulty: the current directory outlives the process.
ExitKeepsCwd(p) ==
    /\ Runs(p)
    /\ ofile' = [q \in DOMAIN ofile \ {p} |-> ofile[q]]
    /\ UNCHANGED <<file, cwd, itab, disk, panic, odd>>

\* sys_exit and ~this: neither closes a descriptor.
Exit(p) ==
    /\ Runs(p)
    /\ ofile' = [q \in DOMAIN ofile \ {p} |-> ofile[q]]
    /\ cwd' = [q \in DOMAIN cwd \ {p} |-> cwd[q]]
    /\ UNCHANGED <<file, itab, disk, panic, odd>>

Next ==
    \E p \in Procs :
        \/ \E path \in Paths : Create(p, path) \/ Chdir(p, path)
        \/ \E path \in Paths, rdonly \in BOOLEAN : Open(p, path, rdonly)
        \/ \E d \in Fds : Close(p, d) \/ Dup(p, d) \/ Fstat(p, d) \/ ReadWrite(p, d)
        \/ \E child \in Procs : Fork(p, child)
        \/ ForkFails(p)
        \/ Exit(p)

Spec == Init /\ [][Next]_vars
-----------------------------------------------------------------------------
\* The descriptors of all processes that refer to File f.
Descriptors(f) == {r \in (DOMAIN ofile) \X Fds : ofile[r[1]][r[2]] = f}

\* Files that programs opened: while odd is 0 these are behind descriptors 2, 3, ...
Opened == {f \in FileSlots : \E r \in Descriptors(f) : r[2] >= 2}

\* Types of the tables.
TypeOK ==
    /\ file \in [FileSlots -> [refcnt : Nat, type : {"NONE", "INODE", "DEVICE"},
                               ip : Slots \union {Null}]]
    /\ DOMAIN ofile \subseteq Procs /\ DOMAIN cwd = DOMAIN ofile
    /\ \A p \in DOMAIN ofile :
        ofile[p] \in [Fds -> FileSlots \union {Null}] /\ cwd[p] \in Slots
    /\ itab \in [ref : [Slots -> Int], inum : [Slots -> Inums]]
    /\ disk \in Disks
    /\ odd \in Nat
    /\ panic \in {"none", "refcnt", "null", "type", "files", "inodes"}

\* A File is not given back to the table while a descriptor of some process
\* refers to it, whatever parents and children open, close, inherit and leave open.
FilesCounted ==
    odd = 0 => \A f \in FileSlots :
        /\ file[f].refcnt >= Cardinality(Descriptors(f))
        /\ Descriptors(f) # {} => file[f].type # "NONE"

\* An inode stays in the table for as long as an open File or the current
\* directory of a process refers to it.
InodesCounted ==
    odd = 0 => \A s \in Slots :
        itab.ref[s] >= Cardinality({f \in Opened : file[f].ip = s})
                       + Cardinality({p \in DOMAIN cwd : cwd[p] = s})

\* No inode is in the table twice: two copies would not see each other's updates.
OneCopyPerInode ==
    odd = 0 => \A s, t \in Slots :
        s # t /\ itab.ref[s] > 0 /\ itab.ref[t] > 0 => itab.inum[s] # itab.inum[t]

\* Without a relative path, a dup or a close of the console, the kernel stops only
\* because one of its tables is full.
CleanAssertsHold == odd = 0 => panic \in {"none", "files", "inodes"}

\* assert(refcnt >= 1), in File.dup, File.close, Inode.lock and Inode.unlock.
RefcntAssertsHold == panic # "refcnt"
=============================================================================
