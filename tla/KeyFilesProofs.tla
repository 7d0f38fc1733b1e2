----------------------------- MODULE KeyFilesProofs ----------------------------
(***************************************************************************)
(* Theorems about KeyFiles, for any number of commands, names and          *)
(* removals.                                                               *)
(***************************************************************************)
EXTENDS KeyFiles, TLAPS

(* A file stays under the name it was made under. *)
PathOf(inode) == IF inode[2] = "private" THEN job[inode[1]].out
                                         ELSE job[inode[1]].pub

Named ==
    \A path \in Path : files[path] # None => PathOf(files[path].inode) = path

(* Who has what open; and a private key is in the file of its maker.       *)
Opened ==
    \A p \in Procs :
        /\ pc[p] = "write private" => fd[p] = <<p, "private">>
        /\ pc[p] = "public" => job[p].pub # None
        /\ pc[p] = "write public" => /\ fd[p] \in Inode /\ job[p].pub # None
                                     /\ PathOf(fd[p]) = job[p].pub

Owned ==
    \A path \in Path : \A q \in Procs :
        Holds(path, Private(q)) => files[path].inode = <<q, "private">>

FilesInv == TypeOK /\ Named /\ Opened /\ Owned

--------------------------------------------------------------------------------
(* What a write does to the file under a name. *)
LEMMA WrittenFile ==
    ASSUME TypeOK, NEW inode \in Inode, NEW text \in Content, NEW path \in Path
    PROVE  /\ Written(inode, text)[path] \in File \cup {None}
           /\ files[path] = None => Written(inode, text)[path] = None
           /\ files[path] # None =>
                 /\ Written(inode, text)[path] # None
                 /\ Written(inode, text)[path].inode = files[path].inode
           /\ files[path] # None /\ files[path].inode # inode =>
                 Written(inode, text)[path] = files[path]
           /\ files[path] # None /\ files[path].inode = inode =>
                 Written(inode, text)[path].content = Overwritten(files[path].content, text)
<1>1. Overwritten(files[path].content, text) \in Content
  BY DEF Overwritten, Content, Mixed
<1> QED
  BY <1>1, KeyFilesAssumption DEF Written, TypeOK, File

(* The two writes as one.  *)
LEMMA AWrite ==
    ASSUME Opened, NEW p \in Procs, WritePrivate(p) \/ WritePublic(p)
    PROVE  \E text \in {Private(p), Public(p)} :
               files' = Written(fd[p], text) /\ fd[p] \in Inode
<1>1. CASE WritePrivate(p)
  <2>1. fd[p] = <<p, "private">> /\ files' = Written(fd[p], Private(p))
    BY <1>1 DEF WritePrivate, Opened
  <2>2. fd[p] \in Inode
    BY <2>1 DEF Inode
  <2> QED
    BY <2>1, <2>2
<1>2. CASE WritePublic(p)
  BY <1>2 DEF WritePublic, Opened
<1> QED
  BY <1>1, <1>2

(* The two creating steps as one.  *)
LEMMA AnOpen ==
    ASSUME TypeOK, Opened, NEW p \in Procs, CreatePrivate(p) \/ OpenPublic(p)
    PROVE  \E path \in Path, inode \in Inode :
              /\ files' = [files EXCEPT ![path] = [inode |-> inode, content |-> Empty]]
              /\ fd' = [fd EXCEPT ![p] = inode]
              /\ files[path] # None => files[path].inode = inode
              /\ [inode |-> inode, content |-> Empty] \in File
              /\ pc' \in {[pc EXCEPT ![p] = "write private"], [pc EXCEPT ![p] = "write public"]}
              /\ CreatePrivate(p) => path = job[p].out /\ inode = <<p, "private">>
              /\ OpenPublic(p) => path = job[p].pub
<1>1. Empty \in Content
  BY DEF Content, Empty
<1>2. CASE CreatePrivate(p)
  <2>1. job[p].out \in Path /\ <<p, "private">> \in Inode /\ ~OpenPublic(p)
    BY <1>2 DEF TypeOK, Job, Inode, CreatePrivate, OpenPublic
  <2>2. [inode |-> <<p, "private">>, content |-> Empty] \in File
    BY <1>1, <2>1 DEF File
  <2> QED
    BY <1>2, <2>1, <2>2 DEF CreatePrivate, Goto
<1>3. CASE OpenPublic(p)
  <2> DEFINE path  == job[p].pub
             inode == IF files[path] = None THEN <<p, "public">> ELSE files[path].inode
  <2>1. path \in Path /\ ~CreatePrivate(p)
    BY <1>3 DEF OpenPublic, CreatePrivate, Opened, TypeOK, Job
  <2>2. inode \in Inode
    BY <2>1 DEF TypeOK, Inode, File
  <2>3. [inode |-> inode, content |-> Empty] \in File
    BY <1>1, <2>2 DEF File
  <2>4. /\ files' = [files EXCEPT ![path] = [inode |-> inode, content |-> Empty]]
        /\ fd' = [fd EXCEPT ![p] = inode]
        /\ pc' = [pc EXCEPT ![p] = "write public"]
        /\ files[path] # None => files[path].inode = inode
    BY <1>3 DEF OpenPublic, Goto
  <2>5. path = job[p].pub
    OBVIOUS
  <2> HIDE DEF path, inode
  <2> QED
    BY <2>1, <2>2, <2>3, <2>4, <2>5
<1> QED
  BY <1>2, <1>3

(* The commands' steps, one by one. *)
LEMMA TypeStep == TypeOK /\ Opened /\ [Next]_vars => TypeOK'
<1> SUFFICES ASSUME TypeOK, Opened, [Next]_vars PROVE TypeOK'
  OBVIOUS
<1>1. ASSUME NEW p \in Procs, CreatePrivate(p) PROVE TypeOK'
  <2>1. <<p, "private">> \in Inode /\ job[p] \in Job /\ Empty \in Content
    BY DEF TypeOK, Inode, Content, Empty
  <2>2. [inode |-> <<p, "private">>, content |-> Empty] \in File
    BY <2>1 DEF File
  <2> QED
    BY <1>1, <2>1, <2>2 DEF CreatePrivate, TypeOK, Goto, History, Running
<1>2. ASSUME NEW p \in Procs, WritePrivate(p) PROVE TypeOK'
  <2>1. fd[p] \in Inode /\ Private(p) \in Content
    <3>1. fd[p] = <<p, "private">>
      BY <1>2 DEF WritePrivate, Opened
    <3> QED
      BY <3>1 DEF Inode, Content, Private
  <2>2. files' \in [Path -> File \cup {None}]
    BY <1>2, <2>1, WrittenFile DEF WritePrivate, Written
  <2> QED
    BY <1>2, <2>2 DEF WritePrivate, AfterPrivate, TypeOK, Goto, History, Running
<1>3. ASSUME NEW p \in Procs, OpenPublic(p) PROVE TypeOK'
  <2> DEFINE path  == job[p].pub
             inode == IF files[path] = None THEN <<p, "public">> ELSE files[path].inode
  <2>1. path \in Path
    BY <1>3 DEF OpenPublic, Opened, TypeOK, Job
  <2>2. inode \in Inode /\ Empty \in Content
    BY <2>1 DEF TypeOK, Inode, File, Content, Empty
  <2>3. [inode |-> inode, content |-> Empty] \in File
    BY <2>2 DEF File
  <2>4. /\ files' = [files EXCEPT ![path] = [inode |-> inode, content |-> Empty]]
        /\ fd' = [fd EXCEPT ![p] = inode]
    BY <1>3 DEF OpenPublic
  <2>5. /\ pc' = [pc EXCEPT ![p] = "write public"]
        /\ UNCHANGED <<job, removals, disturbed, stray>>
    BY <1>3 DEF OpenPublic, Goto, History
  <2> HIDE DEF path, inode
  <2>6. files' \in [Path -> File \cup {None}] /\ fd' \in [Procs -> Inode \cup {None}]
    BY <2>1, <2>2, <2>3, <2>4 DEF TypeOK
  <2> QED
    BY <2>5, <2>6 DEF TypeOK, Running
<1>4. ASSUME NEW p \in Procs, WritePublic(p) PROVE TypeOK'
  <2>1. fd[p] \in Inode /\ Public(p) \in Content
    BY <1>4 DEF WritePublic, Opened, Content, Public
  <2>2. files' \in [Path -> File \cup {None}]
    BY <1>4, <2>1, WrittenFile DEF WritePublic, Written
  <2> QED
    BY <1>4, <2>2 DEF WritePublic, TypeOK, Goto, History, Running
<1>5. ASSUME NEW p \in Procs, Announce(p) PROVE TypeOK'
  BY <1>5 DEF Announce, TypeOK, Goto, History, Ended
<1>6. ASSUME NEW p \in Procs, Stop(p) PROVE TypeOK'
  BY <1>6 DEF Stop, TypeOK, Goto, History, Ended
<1>7. ASSUME NEW path \in Path, Remove(path) PROVE TypeOK'
  BY <1>7, KeyFilesAssumption DEF Remove, TypeOK
<1>8. CASE UNCHANGED vars
  BY <1>8 DEF vars, TypeOK
<1> QED
  BY <1>1, <1>2, <1>3, <1>4, <1>5, <1>6, <1>7, <1>8 DEF Next, Step

LEMMA InvStep == FilesInv /\ [Next]_vars => Named' /\ Opened' /\ Owned'
<1> SUFFICES ASSUME TypeOK, Named, Opened, Owned, [Next]_vars
             PROVE  Named' /\ Opened' /\ Owned'
  BY DEF FilesInv
<1>1. ASSUME NEW p \in Procs, CreatePrivate(p) PROVE Named' /\ Opened' /\ Owned'
  <2>1. /\ files' = [files EXCEPT ![job[p].out] =
                        [inode |-> <<p, "private">>, content |-> Empty]]
        /\ fd' = [fd EXCEPT ![p] = <<p, "private">>]
        /\ pc' = [pc EXCEPT ![p] = "write private"]
        /\ job' = job /\ job[p].out \in Path
    BY <1>1 DEF CreatePrivate, Goto, History, TypeOK, Job
  <2>2. Named'
    BY <2>1, KeyFilesAssumption DEF PathOf, Named, TypeOK, File
  <2>3. Opened'
    BY <2>1 DEF PathOf, Opened, TypeOK
  <2>4. Owned'
    BY <2>1 DEF PathOf, Owned, Holds, TypeOK, Empty, Private
  <2> QED
    BY <2>2, <2>3, <2>4
<1>2. ASSUME NEW p \in Procs, WritePrivate(p) PROVE Named' /\ Opened' /\ Owned'
  <2>1. /\ files' = Written(<<p, "private">>, Private(p)) /\ fd[p] = <<p, "private">>
        /\ fd' = [fd EXCEPT ![p] = None]
        /\ pc' = [pc EXCEPT ![p] = AfterPrivate(p)]
        /\ job' = job
    BY <1>2 DEF WritePrivate, Goto, History, Opened
  <2>2. <<p, "private">> \in Inode /\ Private(p) \in Content
    BY DEF Inode, Content, Private
  <2>3. Named'
    BY <2>1, <2>2, WrittenFile DEF PathOf, Named
  <2>4. Opened'
    BY <2>1 DEF PathOf, Opened, TypeOK, AfterPrivate
  <2>5. Owned'
    BY <2>1, <2>2, WrittenFile DEF PathOf, Owned, Holds, Private, Overwritten, Mixed
  <2> QED
    BY <2>3, <2>4, <2>5
<1>3. ASSUME NEW p \in Procs, OpenPublic(p) PROVE Named' /\ Opened' /\ Owned'
  <2> DEFINE path  == job[p].pub
             inode == IF files[path] = None THEN <<p, "public">> ELSE files[path].inode
  <2>1. path \in Path /\ path # None
    BY <1>3 DEF OpenPublic, Opened, TypeOK, Job
  <2>2. /\ files' = [files EXCEPT ![path] = [inode |-> inode, content |-> Empty]]
        /\ fd' = [fd EXCEPT ![p] = inode]
        /\ pc' = [pc EXCEPT ![p] = "write public"]
        /\ job' = job
    BY <1>3 DEF OpenPublic, Goto, History
  <2>3. inode \in Inode /\ PathOf(inode) = path
    BY <2>1 DEF PathOf, Named, TypeOK, File, Inode
  <2> HIDE DEF path, inode
  <2>4. Named'
    BY <2>1, <2>2, <2>3 DEF PathOf, Named, TypeOK
  <2>5. Opened'
    BY <2>1, <2>2, <2>3 DEF PathOf, Opened, TypeOK, path
  <2>6. Owned'
    BY <2>1, <2>2 DEF PathOf, Owned, Holds, TypeOK, Empty, Private
  <2> QED
    BY <2>4, <2>5, <2>6
<1>4. ASSUME NEW p \in Procs, WritePublic(p) PROVE Named' /\ Opened' /\ Owned'
  <2>1. /\ files' = Written(fd[p], Public(p)) /\ fd[p] \in Inode
        /\ fd' = [fd EXCEPT ![p] = None]
        /\ pc' = [pc EXCEPT ![p] = "announce"]
        /\ job' = job
    BY <1>4 DEF WritePublic, Goto, History, Opened
  <2>2. Public(p) \in Content
    BY DEF Content, Public
  <2>3. Named'
    BY <2>1, <2>2, WrittenFile DEF PathOf, Named
  <2>4. Opened'
    BY <2>1 DEF PathOf, Opened, TypeOK
  <2>5. Owned'
    BY <2>1, <2>2, WrittenFile DEF PathOf, Owned, Holds, Private, Public, Overwritten, Mixed
  <2> QED
    BY <2>3, <2>4, <2>5
<1>5. ASSUME NEW p \in Procs, Announce(p) \/ Stop(p) PROVE Named' /\ Opened' /\ Owned'
  <2>1. files' = files /\ job' = job
    BY <1>5 DEF Announce, Stop, History
  <2>2. Named' /\ Owned'
    BY <2>1 DEF PathOf, Named, Owned, Holds
  <2>3. \A q \in Procs : (pc'[q] = pc[q] /\ fd'[q] = fd[q]) \/ pc'[q] \in Ended
    BY <1>5 DEF Announce, Stop, Goto, TypeOK, Ended
  <2>4. Opened'
    BY <2>1, <2>3 DEF PathOf, Opened, Ended
  <2> QED
    BY <2>2, <2>4
<1>6. ASSUME NEW path \in Path, Remove(path) PROVE Named' /\ Opened' /\ Owned'
  BY <1>6 DEF PathOf, Remove, Named, Opened, Owned, Holds, TypeOK
<1>7. CASE UNCHANGED vars
  BY <1>7 DEF PathOf, vars, Named, Opened, Owned, Holds
<1>8. CASE \E p \in Procs : Step(p)
  BY <1>8, <1>1, <1>2, <1>3, <1>4, <1>5 DEF Step
<1>9. CASE \E path \in Path : Remove(path)
  BY <1>9, <1>6
<1> QED
  BY <1>7, <1>8, <1>9 DEF Next

(* Which inode each keygen has open, under which names inodes can be, and  *)
(* whose private key is in which. (sign/local.py: O_EXCL.)                 *)
THEOREM FilesInvariant == Spec => []FilesInv
<1>1. Init => FilesInv
  BY KeyFilesAssumption DEF Init, FilesInv, TypeOK, Named, Opened, Owned, Holds
<1>2. FilesInv /\ [Next]_vars => FilesInv'
  BY TypeStep, InvStep DEF FilesInv
<1> QED
  BY <1>1, <1>2, PTL DEF Spec

(* Every state of every execution is well-formed. *)
THEOREM Typing == Spec => []TypeOK
BY FilesInvariant, PTL DEF FilesInv

--------------------------------------------------------------------------------
(* A whole private key is destroyed only by its user, or by a command told *)
(* to put its public key there (sign/local.py: O_EXCL).                    *)
THEOREM PrivateStays == Spec => PrivateKeysStay
<1> DEFINE Stays == \A path \in Path : \A p \in Procs :
                      Holds(path, Private(p)) /\ files'[path] # files[path] =>
                          \/ files'[path] = None
                          \/ \E q \in Procs : job[q].pub = path
<1>1. ASSUME FilesInv, [Next]_vars PROVE [Stays]_vars
  <2> SUFFICES ASSUME NEW path \in Path, NEW k \in Procs,
                      Holds(path, Private(k)), files'[path] # files[path],
                      files'[path] # None, \A q \in Procs : job[q].pub # path
               PROVE  FALSE
    OBVIOUS
  <2> USE <1>1 DEF FilesInv
  <2>0. files[path] # None /\ files[path] \in File
    BY KeyFilesAssumption DEF Holds, TypeOK
  <2>1. ASSUME NEW p \in Procs, CreatePrivate(p) PROVE FALSE
    BY <2>0, <2>1 DEF CreatePrivate, TypeOK, Job
  <2>2. ASSUME NEW p \in Procs, WritePrivate(p) PROVE FALSE
    <3>1. files' = Written(<<p, "private">>, Private(p))
      BY <2>2 DEF WritePrivate, Opened
    <3>2. <<p, "private">> \in Inode /\ Private(p) \in Content
      BY DEF Inode, Content, Private
    <3>3. files[path].inode = <<p, "private">>
      BY <2>0, <3>1, <3>2, WrittenFile
    <3>4. p = k
      BY <3>3 DEF Owned
    <3>5. files[path] = [inode |-> <<p, "private">>, content |-> Private(p)]
      BY <2>0, <3>3, <3>4 DEF Holds, File
    <3> QED
      BY <2>0, <3>1, <3>5 DEF Written, Overwritten, Private
  <2>3. ASSUME NEW p \in Procs, OpenPublic(p) PROVE FALSE
    BY <2>3 DEF OpenPublic, TypeOK
  <2>4. ASSUME NEW p \in Procs, WritePublic(p) PROVE FALSE
    <3>1. /\ files' = Written(fd[p], Public(p)) /\ fd[p] \in Inode
          /\ PathOf(fd[p]) = job[p].pub
      BY <2>4 DEF WritePublic, Opened
    <3>2. Public(p) \in Content
      BY DEF Content, Public
    <3>3. files[path].inode = fd[p]
      BY <2>0, <3>1, <3>2, WrittenFile
    <3> QED
      BY <2>0, <3>1, <3>3 DEF Named
  <2>5. ASSUME NEW p \in Procs, Announce(p) \/ Stop(p) PROVE FALSE
    BY <2>5 DEF Announce, Stop
  <2>6. ASSUME NEW other \in Path, Remove(other) PROVE FALSE
    BY <2>6 DEF Remove, TypeOK
  <2>7. CASE UNCHANGED vars
    BY <2>7 DEF vars
  <2> QED
    BY <2>1, <2>2, <2>3, <2>4, <2>5, <2>6, <2>7 DEF Next, Step
<1> QED
  BY <1>1, FilesInvariant, PTL DEF Spec, PrivateKeysStay

--------------------------------------------------------------------------------
(* An empty file is one somebody has open, or stopped over. *)
Attended ==
    \A path \in Path : Holds(path, Empty) =>
        \E p \in Procs :
            \/ pc[p] \in {"failed", "killed"}
            \/ /\ pc[p] \in {"write private", "write public"}
               /\ fd[p] = files[path].inode

LEMMA AttendedStep == FilesInv /\ Attended /\ [Next]_vars => Attended'
<1> SUFFICES ASSUME FilesInv, Attended, [Next]_vars,
                    NEW path \in Path, Holds(path, Empty)'
             PROVE  \E p \in Procs :
                        \/ pc'[p] \in {"failed", "killed"}
                        \/ /\ pc'[p] \in {"write private", "write public"}
                           /\ fd'[p] = files'[path].inode
  BY DEF Attended, Holds, Empty
<1> USE DEF FilesInv
<1>1. ASSUME NEW p \in Procs, CreatePrivate(p) \/ OpenPublic(p) PROVE
             \E q \in Procs : \/ pc'[q] \in {"failed", "killed"}
                              \/ /\ pc'[q] \in {"write private", "write public"}
                                 /\ fd'[q] = files'[path].inode
  <2>1. CASE files'[path] = files[path]
    <3>1. PICK q \in Procs :
              \/ pc[q] \in {"failed", "killed"}
              \/ pc[q] \in {"write private", "write public"} /\ fd[q] = files[path].inode
      BY <2>1 DEF Attended, Holds, Empty
    <3>2. q # p /\ pc'[q] = pc[q] /\ fd'[q] = fd[q]
      BY <1>1, <3>1 DEF CreatePrivate, OpenPublic, Goto, TypeOK
    <3> QED
      BY <2>1, <3>1, <3>2
  <2>2. CASE files'[path] # files[path]
    <3>0. PICK opened \in Path, inode \in Inode :
              /\ files' = [files EXCEPT ![opened] = [inode |-> inode, content |-> Empty]]
              /\ fd' = [fd EXCEPT ![p] = inode]
              /\ pc' \in {[pc EXCEPT ![p] = "write private"],
                          [pc EXCEPT ![p] = "write public"]}
      BY <1>1, AnOpen
    <3>1. /\ pc'[p] \in {"write private", "write public"}
          /\ fd'[p] = files'[path].inode
      BY <2>2, <3>0 DEF TypeOK
    <3> QED
      BY <3>1
  <2> QED
    BY <2>1, <2>2
<1>2. ASSUME NEW p \in Procs, WritePrivate(p) \/ WritePublic(p) PROVE
             \E q \in Procs : \/ pc'[q] \in {"failed", "killed"}
                              \/ /\ pc'[q] \in {"write private", "write public"}
                                 /\ fd'[q] = files'[path].inode
  <2>1. PICK text \in {Private(p), Public(p)} :
            files' = Written(fd[p], text) /\ fd[p] \in Inode
    BY <1>2, AWrite
  <2>2. text \in Content
    BY DEF Content, Private, Public
  <2>3. files[path] # None /\ files[path].inode # fd[p] /\ files'[path] = files[path]
    BY <2>1, <2>2, WrittenFile
       DEF Holds, Overwritten, Empty, Mixed, Private, Public
  <2>4. PICK q \in Procs :
            \/ pc[q] \in {"failed", "killed"}
            \/ pc[q] \in {"write private", "write public"} /\ fd[q] = files[path].inode
    BY <2>3 DEF Attended, Holds, Empty
  <2>5. q # p /\ pc'[q] = pc[q] /\ fd'[q] = fd[q]
    BY <1>2, <2>3, <2>4 DEF WritePrivate, WritePublic, Goto, TypeOK
  <2> QED
    BY <2>3, <2>4, <2>5
<1>3. ASSUME NEW p \in Procs, Announce(p) PROVE
             \E q \in Procs : \/ pc'[q] \in {"failed", "killed"}
                              \/ /\ pc'[q] \in {"write private", "write public"}
                                 /\ fd'[q] = files'[path].inode
  <2>1. PICK q \in Procs :
            \/ pc[q] \in {"failed", "killed"}
            \/ pc[q] \in {"write private", "write public"} /\ fd[q] = files[path].inode
    BY <1>3 DEF Announce, Attended, Holds, Empty
  <2> QED
    BY <1>3, <2>1 DEF Announce, Goto, TypeOK
<1>4. ASSUME NEW p \in Procs, Stop(p) PROVE
             \E q \in Procs : \/ pc'[q] \in {"failed", "killed"}
                              \/ /\ pc'[q] \in {"write private", "write public"}
                                 /\ fd'[q] = files'[path].inode
  BY <1>4 DEF Stop, Goto, TypeOK
<1>5. ASSUME NEW other \in Path, Remove(other) PROVE
             \E q \in Procs : \/ pc'[q] \in {"failed", "killed"}
                              \/ /\ pc'[q] \in {"write private", "write public"}
                                 /\ fd'[q] = files'[path].inode
  BY <1>5 DEF Remove, TypeOK, Attended, Holds, Empty
<1>6. CASE UNCHANGED vars
  BY <1>6 DEF vars, Attended, Holds, Empty
<1> QED
  BY <1>1, <1>2, <1>3, <1>4, <1>5, <1>6 DEF Next, Step

(* One text over another, where two commands were given the same name; and *)
(* no command writes its public key over its own private one.              *)
Shared(path) == \E p, q \in Procs : p # q /\ job[p].out = path /\ job[q].pub = path

MixedByTwo ==
    /\ \A path \in Path : Holds(path, Mixed) => Shared(path)
    /\ \A q \in Procs, path \in Path :
          pc[q] = "write public" /\ files[path] # None /\ files[path].inode = fd[q]
             => files[path].content # Private(q)

LEMMA MixedStep == FilesInv /\ MixedByTwo /\ [Next]_vars => MixedByTwo'
<1> SUFFICES ASSUME FilesInv, MixedByTwo, [Next]_vars PROVE MixedByTwo'
  OBVIOUS
<1> USE DEF FilesInv
<1>1. ASSUME NEW p \in Procs, CreatePrivate(p) \/ OpenPublic(p) PROVE MixedByTwo'
  <2>1. PICK opened \in Path, inode \in Inode :
            /\ files' = [files EXCEPT ![opened] = [inode |-> inode, content |-> Empty]]
            /\ fd' = [fd EXCEPT ![p] = inode]
            /\ [inode |-> inode, content |-> Empty] \in File
    BY <1>1, AnOpen
  <2>2. /\ job' = job
        /\ \A q \in Procs : q # p => pc'[q] = pc[q]
    BY <1>1 DEF CreatePrivate, OpenPublic, Goto, History, TypeOK
  <2>3. ASSUME NEW path \in Path, path # opened, NEW q \in Procs,
               pc'[q] = "write public", files'[path] # None,
               files'[path].inode = fd'[q], files'[path].content = Private(q)
        PROVE  FALSE
    <3>1. files'[path] = files[path]
      BY <2>1, <2>3 DEF TypeOK
    <3>2. CASE q # p
      BY <2>1, <2>2, <2>3, <3>1, <3>2 DEF MixedByTwo, TypeOK
    <3>3. CASE q = p
      <4>1. files[path] # None /\ files[path].inode = inode
        BY <2>1, <2>3, <3>1, <3>3 DEF TypeOK
      <4>2. PathOf(inode) = path
        BY <4>1 DEF Named
      <4>3. files'[opened] = [inode |-> inode, content |-> Empty] /\ files'[opened] # None
        BY <2>1, KeyFilesAssumption DEF TypeOK
      <4>4. Named'
        BY InvStep
      <4>5. PathOf(inode) = opened
        BY <2>2, <4>3, <4>4 DEF Named, PathOf
      <4> QED
        BY <2>3, <4>2, <4>5
    <3> QED
      BY <3>2, <3>3
  <2>4. /\ files'[opened].content = Empty
        /\ \A path \in Path : path # opened => files'[path] = files[path]
    BY <2>1 DEF TypeOK
  <2>5. Empty # Mixed /\ \A q \in Procs : Empty # Private(q)
    BY DEF Empty, Mixed, Private
  <2>6. ASSUME NEW path \in Path, Holds(path, Mixed)' PROVE Shared(path)'
    BY <2>2, <2>4, <2>5, <2>6 DEF MixedByTwo, Holds, Shared, Mixed
  <2> QED
    BY <2>3, <2>4, <2>5, <2>6 DEF MixedByTwo
<1>2. ASSUME NEW p \in Procs, WritePrivate(p) \/ WritePublic(p) PROVE MixedByTwo'
  <2>1. PICK text \in {Private(p), Public(p)} :
            files' = Written(fd[p], text) /\ fd[p] \in Inode
    BY <1>2, AWrite
  <2>2. text \in Content
    BY DEF Content, Private, Public
  <2>3. /\ job' = job /\ pc'[p] # "write public"
        /\ \A q \in Procs : q # p => pc'[q] = pc[q] /\ fd'[q] = fd[q]
    BY <1>2 DEF WritePrivate, WritePublic, AfterPrivate, Goto, History, TypeOK
  <2>4. \A path \in Path :
           /\ files'[path] # None => files[path] # None
                                    /\ files'[path].inode = files[path].inode
           /\ files[path] # None /\ files[path].inode # fd[p] => files'[path] = files[path]
           /\ files[path] # None /\ files[path].inode = fd[p] =>
                 files'[path].content = Overwritten(files[path].content, text)
    BY <2>1, <2>2, WrittenFile
  <2>5. ASSUME NEW path \in Path, Holds(path, Mixed)' PROVE Shared(path)
    <3>1. CASE files[path].inode # fd[p]
      BY <2>4, <2>5, <3>1 DEF Holds, MixedByTwo, Mixed
    <3>2. CASE files[path].inode = fd[p]
      <4>1. /\ files[path] # None
            /\ Overwritten(files[path].content, text) = Mixed
            /\ files[path].content \in Content
        BY <2>4, <2>5, <3>2 DEF Holds, Mixed, TypeOK, File
      <4>2. /\ text = Public(p) /\ WritePublic(p)
            /\ files[path].content.kind \in {"private", "mixed"}
        <5>1. text # Private(p) /\ text = Public(p)
          BY <4>1 DEF Overwritten, Private, Public, Mixed
        <5>2. files[path].content.kind \in {"private", "mixed"}
          BY <4>1, <5>1 DEF Overwritten, Public, Mixed
        <5>3. ~WritePrivate(p)
          <6>1. SUFFICES ASSUME WritePrivate(p) PROVE FALSE
            OBVIOUS
          <6>2. files' = Written(fd[p], Private(p)) /\ Private(p) \in Content
            BY <6>1 DEF WritePrivate, Private, Content
          <6>3. files'[path].content = Overwritten(files[path].content, Private(p))
            BY <2>1, <3>2, <4>1, <6>2, WrittenFile
          <6>4. files'[path].content = Private(p)
            BY <6>3 DEF Overwritten, Private
          <6> QED
            BY <2>5, <6>4 DEF Holds, Private, Mixed
        <5> QED
          BY <1>2, <5>1, <5>2, <5>3
      <4>3. CASE files[path].content.kind = "mixed"
        <5>1. files[path].content = Mixed
          BY <4>1, <4>3 DEF Content, Mixed
        <5> QED
          BY <4>1, <5>1 DEF MixedByTwo, Holds
      <4>4. CASE files[path].content.kind = "private"
        <5>1. PICK k \in Procs : files[path].content = Private(k)
          BY <4>1, <4>4 DEF Content, Private
        <5>2. files[path].inode = <<k, "private">> /\ job[k].out = path
          BY <4>1, <5>1 DEF Owned, Named, Holds, PathOf
        <5>3. pc[p] = "write public" /\ PathOf(fd[p]) = job[p].pub
          BY <4>2 DEF WritePublic, Opened
        <5>4. job[p].pub = path
          BY <3>2, <4>1, <5>3 DEF Named
        <5>5. k # p
          BY <3>2, <4>1, <5>1, <5>3 DEF MixedByTwo
        <5> QED
          BY <5>2, <5>4, <5>5 DEF Shared
      <4> QED
        BY <4>2, <4>3, <4>4
    <3> QED
      BY <3>1, <3>2
  <2>6. ASSUME NEW q \in Procs, NEW path \in Path, pc'[q] = "write public",
               files'[path] # None, files'[path].inode = fd'[q]
        PROVE  files'[path].content # Private(q)
    <3>1. q # p /\ files[path] # None /\ files[path].inode = fd[q]
          /\ pc[q] = "write public" /\ files[path].content # Private(q)
      BY <2>3, <2>4, <2>6 DEF MixedByTwo
    <3>2. CASE files[path].inode # fd[p]
      BY <2>4, <3>1, <3>2
    <3>3. CASE files[path].inode = fd[p]
      <4>1. files'[path].content \in {Mixed, text}
        BY <2>4, <3>1, <3>3 DEF Overwritten
      <4>2. text = Private(p) \/ text = Public(p)
        OBVIOUS
      <4>3. Mixed # Private(q) /\ Public(p) # Private(q) /\ Private(p) # Private(q)
        BY <3>1 DEF Mixed, Private, Public
      <4> QED
        BY <4>1, <4>2, <4>3
    <3> QED
      BY <3>2, <3>3
  <2> QED
    BY <2>3, <2>5, <2>6 DEF MixedByTwo, Shared
<1>3. ASSUME NEW p \in Procs, Announce(p) \/ Stop(p) PROVE MixedByTwo'
  <2>1. /\ files' = files /\ job' = job
        /\ \A q \in Procs : pc'[q] = "write public" => pc[q] = "write public" /\ fd'[q] = fd[q]
    BY <1>3 DEF Announce, Stop, Goto, History, TypeOK
  <2>2. \A path \in Path : Holds(path, Mixed)' => Shared(path)'
    <3>1. \A path \in Path : Holds(path, Mixed)' = Holds(path, Mixed)
                             /\ Shared(path)' = Shared(path)
      BY <2>1 DEF Holds, Shared
    <3> QED
      BY <3>1 DEF MixedByTwo
  <2>3. ASSUME NEW q \in Procs, NEW path \in Path, pc'[q] = "write public",
               files'[path] # None, files'[path].inode = fd'[q]
        PROVE  files'[path].content # Private(q)
    <3>1. pc[q] = "write public" /\ fd'[q] = fd[q] /\ files' = files
      BY <2>1, <2>3
    <3> QED
      BY <2>3, <3>1 DEF MixedByTwo
  <2> QED
    BY <2>2, <2>3 DEF MixedByTwo
<1>4. ASSUME NEW other \in Path, Remove(other) PROVE MixedByTwo'
  <2>1. /\ job' = job /\ pc' = pc /\ fd' = fd
        /\ \A path \in Path : files'[path] # None => files'[path] = files[path]
    BY <1>4 DEF Remove, TypeOK
  <2> QED
    BY <2>1 DEF MixedByTwo, Holds, Shared
<1>5. CASE UNCHANGED vars
  BY <1>5 DEF vars, MixedByTwo, Holds, Shared
<1> QED
  BY <1>1, <1>2, <1>3, <1>4, <1>5 DEF Next, Step

(* Where every command that started has finished, every file is a key, or  *)
(* the private file of one command and the public file of another          *)
(* (sign/local.py: a file is empty between os.open and fh.write).          *)
THEOREM FinishedLeaveKeys == Spec => []FinishedKeygensLeaveKeys
<1>1. Init => Attended /\ MixedByTwo
  BY DEF Init, Attended, MixedByTwo, Holds
<1>2. FilesInv /\ Attended /\ MixedByTwo /\ [Next]_vars => Attended' /\ MixedByTwo'
  BY AttendedStep, MixedStep
<1>3. FilesInv /\ Attended /\ MixedByTwo => FinishedKeygensLeaveKeys
  <2> SUFFICES ASSUME FilesInv, Attended, MixedByTwo,
                      \A p \in Procs : pc[p] \in {"start", "done"},
                      NEW path \in Path, files[path] # None
               PROVE  \/ \E p \in Procs : files[path].content \in {Private(p), Public(p)}
                      \/ Shared(path)
    BY DEF FinishedKeygensLeaveKeys, Shared
  <2>1. files[path].content \in Content
    BY DEF FilesInv, TypeOK, File
  <2>2. files[path].content # Empty
    BY DEF Attended, Holds
  <2>3. files[path].content = Mixed => Shared(path)
    BY DEF MixedByTwo, Holds
  <2> QED
    BY <2>1, <2>2, <2>3 DEF Content, Private, Public, Empty, Mixed
<1> QED
  BY <1>1, <1>2, <1>3, FilesInvariant, PTL DEF Spec

--------------------------------------------------------------------------------
(* No removal under a running command: each has its own private file.      *)
Solo ==
    stray = {} =>
        \A q \in Procs : pc[q] \in Running =>
            /\ files[job[q].out] # None
            /\ files[job[q].out].inode = <<q, "private">>

Undisturbed(p) ==
    /\ job[p].pub \notin {None, job[p].out}
    /\ stray = {} /\ p \notin disturbed
    /\ \A q \in Procs \ {p} : Harmless(q, p)

Halves(p) ==
    /\ pc[p] \in Running \cup {"done"} =>
          /\ files[job[p].out] # None
          /\ files[job[p].out].inode = <<p, "private">>
    /\ pc[p] \in {"public", "write public", "announce", "done"} =>
          files[job[p].out].content = Private(p)
    /\ pc[p] = "write public" =>
          /\ files[job[p].pub] # None
          /\ files[job[p].pub].inode = fd[p]
          /\ files[job[p].pub].content = Empty
    /\ pc[p] \in {"announce", "done"} => Holds(job[p].pub, Public(p))

Paired == \A p \in Procs : Undisturbed(p) => Halves(p)

LEMMA SoloStep == FilesInv /\ Solo /\ [Next]_vars => Solo'
<1> SUFFICES ASSUME FilesInv, Solo, [Next]_vars, stray' = {},
                    NEW k \in Procs, pc'[k] \in Running
             PROVE  /\ files'[job'[k].out] # None
                    /\ files'[job'[k].out].inode = <<k, "private">>
  BY DEF Solo, Running
<1> DEFINE Good == /\ files'[job'[k].out] # None
                   /\ files'[job'[k].out].inode = <<k, "private">>
<1> USE DEF FilesInv
<1>0. job[k].out \in Path
  BY DEF TypeOK, Job
<1>1. ASSUME NEW p \in Procs, CreatePrivate(p) PROVE Good
  <2>1. p \in Procs /\ job[p].out \in Path /\ job' = job /\ stray' = stray
    BY <1>1 DEF TypeOK, Job, CreatePrivate, History
  <2>2. CASE p = k
    <3>1. files' = [files EXCEPT ![job[k].out] =
                       [inode |-> <<k, "private">>, content |-> Empty]]
      BY <1>1, <2>2 DEF CreatePrivate
    <3>2. [inode |-> <<k, "private">>, content |-> Empty] \in File
      BY <1>1, <2>2, AnOpen
    <3> QED
      BY <1>0, <2>1, <3>1, <3>2, KeyFilesAssumption DEF TypeOK
  <2>3. CASE p # k
    <3>1. pc[k] \in Running
      BY <1>1, <2>3 DEF CreatePrivate, Goto, TypeOK
    <3>2. job[p].out # job[k].out
      BY <1>1, <2>1, <3>1 DEF Solo, CreatePrivate
    <3> QED
      BY <1>0, <1>1, <2>1, <3>1, <3>2 DEF CreatePrivate, Solo, TypeOK
  <2> QED
    BY <2>2, <2>3
<1>2. ASSUME NEW p \in Procs, WritePrivate(p) \/ WritePublic(p) PROVE Good
  <2>1. PICK text \in {Private(p), Public(p)} :
            files' = Written(fd[p], text) /\ fd[p] \in Inode
    BY <1>2, AWrite
  <2>2. text \in Content
    BY DEF Content, Private, Public
  <2>3. job' = job /\ stray' = stray /\ pc[k] \in Running
    BY <1>2 DEF WritePrivate, WritePublic, History, Goto, TypeOK, Running
  <2> QED
    BY <1>0, <2>1, <2>2, <2>3, WrittenFile DEF Solo
<1>3. ASSUME NEW p \in Procs, OpenPublic(p) PROVE Good
  <2>1. job' = job /\ stray' = stray /\ pc[k] \in Running
    BY <1>3 DEF OpenPublic, History, Goto, TypeOK, Running
  <2>2. files[job[k].out] # None /\ files[job[k].out].inode = <<k, "private">>
    BY <2>1 DEF Solo
  <2>3. PICK opened \in Path, inode \in Inode :
            /\ files' = [files EXCEPT ![opened] = [inode |-> inode, content |-> Empty]]
            /\ files[opened] # None => files[opened].inode = inode
            /\ [inode |-> inode, content |-> Empty] \in File
    BY <1>3, AnOpen
  <2> QED
    BY <1>0, <2>1, <2>2, <2>3, KeyFilesAssumption DEF TypeOK
<1>4. ASSUME NEW p \in Procs, Announce(p) \/ Stop(p) PROVE Good
  <2>1. files' = files /\ job' = job /\ stray' = stray /\ pc[k] \in Running
    BY <1>4 DEF Announce, Stop, History, Goto, TypeOK, Running
  <2> QED
    BY <2>1 DEF Solo
<1>5. ASSUME NEW path \in Path, Remove(path) PROVE Good
  BY <1>5 DEF Remove
<1>6. CASE UNCHANGED vars
  BY <1>6 DEF vars, Solo
<1> QED
  BY <1>1, <1>2, <1>3, <1>4, <1>5, <1>6 DEF Next, Step

(* Another command that is past its start names none of p's files. *)
LEMMA Apart ==
    ASSUME FilesInv, Solo, NEW p \in Procs, NEW q \in Procs, p # q,
           Undisturbed(p), Halves(p), pc[p] \in Running \cup {"done"},
           pc[q] \in Running \/ files[job[q].out] = None
    PROVE  Names(q) \cap Names(p) = {}
<1>1. CASE job[q].out = job[p].out
  <2>1. files[job[p].out] # None /\ files[job[p].out].inode = <<p, "private">>
    BY DEF Halves
  <2>2. files[job[q].out].inode = <<q, "private">>
    BY <1>1, <2>1 DEF Solo, Undisturbed
  <2> QED
    BY <1>1, <2>1, <2>2
<1>2. CASE job[q].out # job[p].out
  BY <1>2 DEF Undisturbed, Harmless
<1> QED
  BY <1>1, <1>2

(* A step of another command leaves p's two halves alone. *)
LEMMA OtherStep ==
    ASSUME FilesInv, Solo, NEW p \in Procs, NEW q \in Procs, p # q,
           Undisturbed(p), Halves(p), Step(q)
    PROVE  Halves(p)'
<1> USE DEF FilesInv
<1>1. job' = job /\ pc'[p] = pc[p] /\ fd'[p] = fd[p]
  BY DEF Step, CreatePrivate, WritePrivate, OpenPublic, WritePublic, Announce,
         Stop, History, Goto, TypeOK
<1>2. CASE pc[p] \notin Running \cup {"done"}
  BY <1>1, <1>2 DEF Halves, Running
<1>3. CASE pc[p] \in Running \cup {"done"}
  <2>1. SUFFICES /\ files'[job[p].out] = files[job[p].out]
                 /\ files'[job[p].pub] = files[job[p].pub]
    BY <1>1 DEF Halves, Holds
  <2>2. /\ job[p].out \in Path /\ job[p].pub \in Path
        /\ Names(p) = {job[p].out, job[p].pub}
    BY KeyFilesAssumption DEF TypeOK, Job, Undisturbed, Names
  <2>3. CASE CreatePrivate(q) \/ OpenPublic(q)
    <3>1. pc[q] \in Running \/ files[job[q].out] = None
      BY <2>3 DEF CreatePrivate, OpenPublic, Running
    <3>2. Names(q) \cap Names(p) = {}
      BY <1>3, <3>1, Apart
    <3>3. PICK path \in Path, inode \in Inode :
              /\ files' = [files EXCEPT ![path] = [inode |-> inode, content |-> Empty]]
              /\ path \in {job[q].out, job[q].pub}
      BY <2>3, AnOpen
    <3>4. path \in Names(q)
      BY <3>3, KeyFilesAssumption DEF Names
    <3> QED
      BY <2>2, <3>2, <3>3, <3>4 DEF TypeOK
  <2>4. CASE WritePrivate(q) \/ WritePublic(q)
    <3>1. PICK text \in {Private(q), Public(q)} :
              files' = Written(fd[q], text) /\ fd[q] \in Inode
      BY <2>4, AWrite
    <3>2. text \in Content
      BY DEF Content, Private, Public
    <3>3. pc[q] \in Running /\ PathOf(fd[q]) \in {job[q].out, job[q].pub} \ {None}
      <4>1. CASE WritePrivate(q)
        <5>1. fd[q] = <<q, "private">> /\ pc[q] \in Running
          BY <4>1 DEF WritePrivate, Running, Opened
        <5>2. PathOf(fd[q]) = job[q].out
          BY <5>1 DEF PathOf
        <5> QED
          BY <5>1, <5>2, KeyFilesAssumption DEF TypeOK, Job
      <4>2. CASE WritePublic(q)
        BY <4>2 DEF WritePublic, Running, Opened
      <4> QED
        BY <2>4, <4>1, <4>2
    <3>4. Names(q) \cap Names(p) = {}
      BY <1>3, <3>3, Apart
    <3>5. \A path \in Names(p) : PathOf(fd[q]) # path
      BY <3>3, <3>4 DEF Names
    <3>6. \A path \in Names(p) :
              files[path] = None \/ files[path].inode # fd[q]
      BY <2>2, <3>5 DEF Named
    <3> QED
      BY <2>2, <3>1, <3>2, <3>6, WrittenFile
  <2>5. CASE Announce(q) \/ Stop(q)
    BY <2>5 DEF Announce, Stop
  <2> QED
    BY <2>3, <2>4, <2>5 DEF Step
<1> QED
  BY <1>2, <1>3

(* p's own steps make the halves one after the other. *)
LEMMA OwnStep ==
    ASSUME FilesInv, NEW p \in Procs, Undisturbed(p), Halves(p), Step(p)
    PROVE  Halves(p)'
<1> USE DEF FilesInv
<1>1. /\ job' = job /\ job[p].out \in Path /\ job[p].pub \in Path
      /\ job[p].out # job[p].pub
  BY DEF Step, CreatePrivate, WritePrivate, OpenPublic, WritePublic, Announce,
         Stop, History, TypeOK, Job, Undisturbed
<1>2. CASE CreatePrivate(p)
  <2>1. /\ files' = [files EXCEPT ![job[p].out] =
                        [inode |-> <<p, "private">>, content |-> Empty]]
        /\ pc'[p] = "write private"
    BY <1>2 DEF CreatePrivate, Goto, TypeOK
  <2>2. [inode |-> <<p, "private">>, content |-> Empty] \in File
    BY <1>2, AnOpen
  <2>3. /\ files'[job[p].out] # None
        /\ files'[job[p].out].inode = <<p, "private">>
    BY <1>1, <2>1, <2>2, KeyFilesAssumption DEF TypeOK
  <2> QED
    BY <1>1, <2>1, <2>3 DEF Halves
<1>3. CASE WritePrivate(p)
  <2>1. /\ files' = Written(<<p, "private">>, Private(p))
        /\ pc'[p] = "public" /\ pc[p] = "write private"
    BY <1>3 DEF WritePrivate, Opened, Goto, TypeOK, AfterPrivate, Undisturbed
  <2>2. <<p, "private">> \in Inode /\ Private(p) \in Content
    BY DEF Inode, Content, Private
  <2>3. files[job[p].out] # None /\ files[job[p].out].inode = <<p, "private">>
    BY <2>1 DEF Halves, Running
  <2>4. /\ files'[job[p].out] # None /\ files'[job[p].out].inode = <<p, "private">>
        /\ files'[job[p].out].content = Private(p)
    BY <1>1, <2>1, <2>2, <2>3, WrittenFile DEF Overwritten, Private
  <2> QED
    BY <1>1, <2>1, <2>4 DEF Halves
<1>4. CASE OpenPublic(p)
  <2>1. PICK path \in Path, inode \in Inode :
            /\ files' = [files EXCEPT ![path] = [inode |-> inode, content |-> Empty]]
            /\ fd' = [fd EXCEPT ![p] = inode]
            /\ [inode |-> inode, content |-> Empty] \in File
            /\ path = job[p].pub
    BY <1>4, AnOpen
  <2>2. pc'[p] = "write public" /\ pc[p] = "public"
    BY <1>4 DEF OpenPublic, Goto, TypeOK
  <2>3. files'[job[p].out] = files[job[p].out]
    BY <1>1, <2>1 DEF TypeOK
  <2>4. /\ files'[job[p].pub] # None /\ files'[job[p].pub].inode = fd'[p]
        /\ files'[job[p].pub].content = Empty
    BY <1>1, <2>1, KeyFilesAssumption DEF TypeOK
  <2> QED
    BY <1>1, <2>2, <2>3, <2>4 DEF Halves, Running
<1>5. CASE WritePublic(p)
  <2>1. /\ files' = Written(fd[p], Public(p)) /\ fd[p] \in Inode
        /\ pc'[p] = "announce" /\ pc[p] = "write public"
        /\ PathOf(fd[p]) = job[p].pub
    BY <1>5 DEF WritePublic, Opened, Goto, TypeOK
  <2>2. Public(p) \in Content
    BY DEF Content, Public
  <2>3. files'[job[p].out] = files[job[p].out]
    <3>1. files[job[p].out] # None /\ files[job[p].out].inode = <<p, "private">>
      BY <2>1 DEF Halves, Running
    <3>2. PathOf(<<p, "private">>) = job[p].out
      BY DEF PathOf
    <3>3. files[job[p].out].inode # fd[p]
      BY <1>1, <2>1, <3>1, <3>2
    <3> QED
      BY <1>1, <2>1, <2>2, <3>1, <3>3, WrittenFile
  <2>4. Holds(job[p].pub, Public(p))'
    <3>1. /\ files[job[p].pub] # None /\ files[job[p].pub].inode = fd[p]
          /\ files[job[p].pub].content = Empty
      BY <2>1 DEF Halves
    <3>2. Overwritten(Empty, Public(p)) = Public(p)
      BY DEF Overwritten, Empty
    <3>3. /\ files'[job[p].pub] # None
          /\ files'[job[p].pub].content = Public(p)
      BY <1>1, <2>1, <2>2, <3>1, <3>2, WrittenFile
    <3> QED
      BY <1>1, <3>3 DEF Holds, Public
  <2> QED
    BY <1>1, <2>1, <2>3, <2>4 DEF Halves, Running
<1>6. CASE Announce(p)
  BY <1>1, <1>6 DEF Announce, Goto, TypeOK, Halves, Holds, Running
<1>7. CASE Stop(p)
  <2>1. pc'[p] \in {"failed", "killed"}
    BY <1>7 DEF Stop, Goto, TypeOK
  <2> QED
    BY <2>1 DEF Halves, Running
<1> QED
  BY <1>2, <1>3, <1>4, <1>5, <1>6, <1>7 DEF Step

LEMMA PairedStep == FilesInv /\ Solo /\ Paired /\ [Next]_vars => Paired'
<1> SUFFICES ASSUME FilesInv, Solo, Paired, [Next]_vars,
                    NEW p \in Procs, Undisturbed(p)'
             PROVE  Halves(p)'
  BY DEF Paired
<1>1. CASE \E q \in Procs : Step(q)
  <2>1. PICK q \in Procs : Step(q)
    BY <1>1
  <2>2. job' = job /\ stray' = stray /\ disturbed' = disturbed
    BY <2>1 DEF Step, CreatePrivate, WritePrivate, OpenPublic, WritePublic, Announce,
                Stop, History
  <2>3. Undisturbed(p) /\ Halves(p)
    BY <2>2 DEF Undisturbed, Harmless, Names, Paired
  <2> QED
    BY <2>1, <2>3, OtherStep, OwnStep
<1>2. CASE \E path \in Path : Remove(path)
  <2>1. job' = job /\ pc' = pc /\ pc[p] = "start"
    BY <1>2 DEF Remove, Undisturbed, FilesInv, TypeOK
  <2> QED
    BY <2>1 DEF Halves, Running
<1>3. CASE UNCHANGED vars
  BY <1>3 DEF vars, Paired, Undisturbed, Harmless, Names, Halves, Holds
<1> QED
  BY <1>1, <1>2, <1>3 DEF Next

(* A keygen that succeeded left the two halves of its own key, whatever    *)
(* other keygens with the same names did and wherever they stopped         *)
(* (__main__.py: _cmd_keygen writes the private key first).                *)
THEOREM PairsAreHalves == Spec => []PairsMatch
<1>1. Init => Solo /\ Paired
  BY DEF Init, Solo, Paired, Halves, Running
<1>2. FilesInv /\ Solo /\ Paired /\ [Next]_vars => Solo' /\ Paired'
  BY SoloStep, PairedStep
<1>3. Paired => PairsMatch
  BY DEF Paired, PairsMatch, Undisturbed, Halves, Holds
<1> QED
  BY <1>1, <1>2, <1>3, FilesInvariant, PTL DEF Spec
=============================================================================
