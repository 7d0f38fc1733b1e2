------------------------------- MODULE KeyFiles --------------------------------
(***************************************************************************)
(* The T1 key files (sign/local.py) and the keygen command (__main__.py)   *)
(* that writes them, run by any number of processes.                       *)
(*                                                                         *)
(* keygen makes a key, creates the private file exclusively and writes it, *)
(* then opens the public file for writing, which empties it, and writes    *)
(* it.  It may fail or be killed between any two of these, and the user    *)
(* may remove a file meanwhile.  A file is an inode under a name: a write  *)
(* goes to the inode that was opened, removed from its name or not.        *)
(*                                                                         *)
(* `disturbed' and `stray' are history: the commands that had started when *)
(* a file was removed, and those of them that were still running.          *)
(***************************************************************************)
EXTENDS Naturals

CONSTANTS
    Procs,          \* the keygen commands; each makes a key of its own
    Path,           \* file names
    None,           \* no such file; no --pub
    MaxRemovals     \* bound on the files the user removes

Inode   == Procs \X {"private", "public"}   \* who created it, as what
Content == [kind : {"private", "public"}, key : Procs]
              \cup [kind : {"empty", "mixed"}]
Private(p) == [kind |-> "private", key |-> p]
Public(p)  == [kind |-> "public", key |-> p]
Empty      == [kind |-> "empty"]
Mixed      == [kind |-> "mixed"]            \* one key's text over another's
File    == [inode : Inode, content : Content]
Job     == [out : Path, pub : Path \cup {None}]

ASSUME KeyFilesAssumption ==
    /\ None \notin Path /\ None \notin File
    /\ MaxRemovals \in Nat

VARIABLES
    files,          \* what is under each name
    job, pc,        \* per command
    fd,             \* the inode it has open for writing
    removals,       \* files the user removed, for the bound
    disturbed, stray

vars == <<files, job, pc, fd, removals, disturbed, stray>>

Running == {"write private", "public", "write public", "announce"}
Ended   == {"done", "failed", "killed"}

TypeOK ==
    /\ files \in [Path -> File \cup {None}]
    /\ job \in [Procs -> Job]
    /\ pc \in [Procs -> {"start"} \cup Running \cup Ended]
    /\ fd \in [Procs -> Inode \cup {None}]
    /\ removals \in 0..MaxRemovals
    /\ disturbed \subseteq Procs /\ stray \subseteq Procs

Init ==
    /\ files = [path \in Path |-> None]
    /\ job \in [Procs -> Job]
    /\ pc = [p \in Procs |-> "start"]
    /\ fd = [p \in Procs |-> None]
    /\ removals = 0 /\ disturbed = {} /\ stray = {}

Goto(p, step) == pc' = [pc EXCEPT ![p] = step]
History       == <<job, removals, disturbed, stray>>

(* Mutated form: the file is opened without O_EXCL. *)
CreatePrivate_NotExclusive(p) ==
    /\ pc[p] = "start"
    /\ files' = [files EXCEPT ![job[p].out] =
                    [inode |-> <<p, "private">>, content |-> Empty]]
    /\ fd' = [fd EXCEPT ![p] = <<p, "private">>]
    /\ Goto(p, "write private")
    /\ UNCHANGED History

(***************************************************************************)
(* write_private_pem, os.open with O_EXCL: a name that is taken raises.    *)
(***************************************************************************)
CreatePrivate(p) ==
    /\ pc[p] = "start"
    /\ files[job[p].out] = None
    /\ files' = [files EXCEPT ![job[p].out] =
                    [inode |-> <<p, "private">>, content |-> Empty]]
    /\ fd' = [fd EXCEPT ![p] = <<p, "private">>]
    /\ Goto(p, "write private")
    /\ UNCHANGED History

(* Mutated form: the text goes behind what the file holds. *)
Overwritten_Appends(old, new) ==
    IF old.kind = "empty" THEN new ELSE [kind |-> "mixed", key |-> new.key]

(* A write to an open inode, seen under the name it still has.  The text   *)
(* of a public key is as long as another's, and shorter than a private's.  *)
Overwritten(old, new) ==
    IF new.kind = "public" /\ old.kind \in {"private", "mixed"} THEN Mixed ELSE new

Written(inode, text) ==
    [path \in Path |->
        IF files[path] = None THEN None
        ELSE IF files[path].inode # inode THEN files[path]
        ELSE [inode |-> inode, content |-> Overwritten(files[path].content, text)]]

AfterPrivate(p) == IF job[p].pub = None THEN "announce" ELSE "public"

(* Mutated form: the private key is never written. *)
WritePrivate_Late(p) ==
    /\ pc[p] = "write private"
    /\ UNCHANGED files
    /\ fd' = [fd EXCEPT ![p] = None]
    /\ Goto(p, AfterPrivate(p))
    /\ UNCHANGED History

WritePrivate(p) ==
    /\ pc[p] = "write private"
    /\ files' = Written(fd[p], Private(p))
    /\ fd' = [fd EXCEPT ![p] = None]
    /\ Goto(p, AfterPrivate(p))
    /\ UNCHANGED History

(***************************************************************************)
(* write_public_pem, open(path, "wb"): whatever is there is emptied.       *)
(***************************************************************************)
OpenPublic(p) ==
    /\ pc[p] = "public"
    /\ LET path  == job[p].pub
           inode == IF files[path] = None THEN <<p, "public">>
                                          ELSE files[path].inode
       IN /\ files' = [files EXCEPT ![path] =
                          [inode |-> inode, content |-> Empty]]
          /\ fd' = [fd EXCEPT ![p] = inode]
    /\ Goto(p, "write public")
    /\ UNCHANGED History

WritePublic(p) ==
    /\ pc[p] = "write public"
    /\ files' = Written(fd[p], Public(p))
    /\ fd' = [fd EXCEPT ![p] = None]
    /\ Goto(p, "announce")
    /\ UNCHANGED History

Announce(p) ==
    /\ pc[p] = "announce"
    /\ Goto(p, "done")
    /\ UNCHANGED <<files, fd, History>>

(* Any step may raise (the name is taken, no space) or be the last one.    *)
Stop(p) ==
    /\ pc[p] \in {"start"} \cup Running
    /\ \E how \in {"failed", "killed"} : Goto(p, how)
    /\ fd' = [fd EXCEPT ![p] = None]
    /\ UNCHANGED <<files, History>>

Remove(path) ==
    /\ removals < MaxRemovals /\ files[path] # None
    /\ files' = [files EXCEPT ![path] = None]
    /\ removals' = removals + 1
    /\ disturbed' = disturbed \cup {p \in Procs : pc[p] # "start"}
    /\ stray' = stray \cup {p \in Procs : pc[p] \in Running}
    /\ UNCHANGED <<job, pc, fd>>

Step(p) == \/ CreatePrivate(p) \/ WritePrivate(p)
           \/ OpenPublic(p) \/ WritePublic(p)
           \/ Announce(p) \/ Stop(p)

Next == (\E p \in Procs : Step(p)) \/ (\E path \in Path : Remove(path))

Spec == Init /\ [][Next]_vars

--------------------------------------------------------------------------------
(* Properties.                                                             *)

Holds(path, content) == files[path] # None /\ files[path].content = content

(* A private key that is whole stays what it is until the user removes it, *)
(* unless a command is told to put its public key under that very name.    *)
(* (sign/local.py: O_EXCL; tests/test_key_io.py:16.)                       *)
PrivateKeysStay ==
    [][\A path \in Path : \A p \in Procs :
          Holds(path, Private(p)) /\ files'[path] # files[path] =>
              \/ files'[path] = None
              \/ \E q \in Procs : job[q].pub = path]_vars

Names(p) == {job[p].out, job[p].pub} \ {None}

(* Another command is harmless to p when it names none of p's files, or    *)
(* the same private file: then one of the two fails before its public key. *)
Harmless(q, p) ==
    \/ Names(q) \cap Names(p) = {}
    \/ /\ job[q].out = job[p].out
       /\ job[q].pub # job[p].out

(* After a keygen that succeeded the two files are the two halves of its   *)
(* key, whatever other keygens did to the same pair of names and wherever  *)
(* they stopped, if no file was removed since, or ever while a keygen was  *)
(* running.  (__main__.py: _cmd_keygen writes the private key first.)      *)
PairsMatch ==
    \A p \in Procs :
        /\ pc[p] = "done" /\ job[p].pub \notin {None, job[p].out}
        /\ stray = {} /\ p \notin disturbed
        /\ \A q \in Procs \ {p} : Harmless(q, p)
        => Holds(job[p].out, Private(p)) /\ Holds(job[p].pub, Public(p))

(* A command that was stopped may leave an empty file (sign/local.py:      *)
(* os.open and fh.write are two steps).  Where all have finished every     *)
(* file holds a key and nothing else, with one exception: the name that    *)
(* one command was given for its public and another for its private file,  *)
(* which may hold the one's text over the other's.                         *)
FinishedKeygensLeaveKeys ==
    (\A p \in Procs : pc[p] \in {"start", "done"}) =>
        \A path \in Path : files[path] # None =>
            \/ \E p \in Procs : files[path].content \in {Private(p), Public(p)}
            \/ \E p, q \in Procs : p # q /\ job[p].out = path /\ job[q].pub = path
=============================================================================
