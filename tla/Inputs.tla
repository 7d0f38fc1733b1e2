-------------------------------- MODULE Inputs ---------------------------------
(***************************************************************************)
(* The files a producer command reads while somebody may be writing them,  *)
(* and the walk of a directory bundle (bundle.py, canonical_manifest).     *)
(*                                                                         *)
(* Nothing is locked and nothing is read twice from one open file: every   *)
(* listing, test and hash is a step of its own that sees the file of that  *)
(* instant.  The walk lists the directories first, then takes the listed   *)
(* paths (in any order here, sorted in the code) one by one: it looks at   *)
(* what a path is, and then opens it, following a link that came between.  *)
(*                                                                         *)
(* `since' is history: what each file has been since a command started.    *)
(***************************************************************************)
EXTENDS VCR

CONSTANTS
    Procs,          \* the commands
    Path,           \* file names; those of a bundle are in Dir
    Dir,            \* the directories of the bundle
    DirOf(_),       \* path -> its directory, or None outside the bundle
    Key(_),         \* path -> its NFC-normalised relative path
    NoiseDirs,      \* whatever is named .git or __pycache__
    NoiseNames,     \* .DS_Store
    Versions(_),    \* bound: what a file may be, None among them
    MaxRewrites     \* bound: how often the files change

Entry == [kind : {"file", "link"}, bytes : Content]

File(content) == [kind |-> "file", bytes |-> content]
Link(content) == [kind |-> "link", bytes |-> content]

ASSUME InputsAssumption ==
    /\ \A path \in Path : /\ DirOf(path) \in Dir \cup {None}
                          /\ Versions(path) \subseteq Entry \cup {None}
    /\ None \notin Path /\ None \notin Dir
    /\ MaxRewrites \in Nat

VARIABLES
    files,          \* Path -> Entry, or None
    rewrites,       \* changes so far, for the bound
    since,          \* history
    pc,             \* where each command is
    walk            \* walk[p]: the state of its walk

inputVars == <<files, rewrites, since>>

Ended == {"done", "refused", "stopped"}

NoManifest == [key \in {} |-> None]
NotWalking == [unlisted |-> {}, listed |-> {}, hashing |-> None,
               manifest |-> NoManifest]
IsWalk(w) ==
    /\ w \in [unlisted : SUBSET Dir, listed : SUBSET Path, hashing : Path \cup {None},
              manifest : {w.manifest}]
    /\ DOMAIN w.manifest \subseteq {Key(path) : path \in Path}
    /\ w.manifest = [key \in DOMAIN w.manifest |-> w.manifest[key]]
    /\ \A key \in DOMAIN w.manifest : w.manifest[key] \in Content

InputsTypeOK ==
    /\ files \in [Path -> Entry \cup {None}]
    /\ rewrites \in 0..MaxRewrites
    /\ since \in [Procs -> [Path -> SUBSET (Entry \cup {None})]]
    /\ DOMAIN walk = Procs /\ \A p \in Procs : IsWalk(walk[p])

InputsInit(seeds) ==
    /\ files \in seeds
    /\ rewrites = 0
    /\ since = [p \in Procs |-> [path \in Path |-> {}]]
    /\ walk = [p \in Procs |-> NotWalking]

Goto(p, step) == pc' = [pc EXCEPT ![p] = step]

(* The user, an editor or a benchmark changes, creates or removes a file.  *)
Rewrite(path) ==
    /\ rewrites < MaxRewrites
    /\ \E entry \in Versions(path) \ {files[path]} :
          /\ files' = [files EXCEPT ![path] = entry]
          /\ since' = [p \in Procs |-> IF pc[p] \in {"start"} \cup Ended THEN since[p]
                           ELSE [since[p] EXCEPT ![path] = @ \cup {entry}]]
    /\ rewrites' = rewrites + 1
    /\ UNCHANGED <<pc, walk>>

(* What p's files are as it starts. *)
Begin(p) == since' = [since EXCEPT ![p] = [path \in Path |-> {files[path]}]]

BundlePaths == {path \in Path : DirOf(path) # None}

StartWalk(p) ==
    walk' = [walk EXCEPT ![p] = [NotWalking EXCEPT !.unlisted = Dir]]

(* base.rglob: one directory at a time. *)
ListDirectory(p) ==
    /\ pc[p] = "walk"
    /\ \E dir \in walk[p].unlisted :
          walk' = [walk EXCEPT ![p] =
              [walk[p] EXCEPT !.unlisted = @ \ {dir},
                             !.listed = @ \cup {path \in Path :
                                            DirOf(path) = dir /\ files[path] # None}]]
    /\ UNCHANGED <<inputVars, pc>>

(***************************************************************************)
(* One of the parts of the path, its own name among them, is .git or       *)
(* __pycache__: it is passed over before anything else is asked of it.     *)
(***************************************************************************)
Noise(path) == DirOf(path) \in NoiseDirs \/ path \in NoiseDirs

(***************************************************************************)
(* A path that is no part of the identity: noise, or not a regular file.   *)
(***************************************************************************)
Skipped(path) ==
    Noise(path) \/ path \in NoiseNames \/ files[path] = None

IsLink(path) == files[path] # None /\ files[path].kind = "link"

(* Mutated form: links are followed. *)
Refused_FollowsLinks(p, path) ==
    ~Skipped(path) /\ Key(path) \in DOMAIN walk[p].manifest

(* Mutated form: of two paths with one name the later one is taken. *)
Refused_LastPathWins(p, path) ==
    ~Noise(path) /\ IsLink(path)

(***************************************************************************)
(* A link that is not noise, a .DS_Store among them, or a second path with *)
(* the same normalised name.                                               *)
(***************************************************************************)
Refused(p, path) ==
    \/ ~Noise(path) /\ IsLink(path)
    \/ ~Skipped(path) /\ Key(path) \in DOMAIN walk[p].manifest

Look(p) ==
    /\ pc[p] = "walk"
    /\ walk[p].unlisted = {} /\ walk[p].hashing = None
    /\ \E path \in walk[p].listed :
          \/ /\ Refused(p, path)
             /\ Goto(p, "refused")
             /\ UNCHANGED walk
          \/ /\ ~Refused(p, path)
             /\ walk' = [walk EXCEPT ![p] =
                    [walk[p] EXCEPT !.listed = @ \ {path},
                                   !.hashing = IF Skipped(path) THEN None ELSE path]]
             /\ UNCHANGED pc
    /\ UNCHANGED inputVars

(***************************************************************************)
(* sha256_file: opens what is there by now; a file that is gone raises.    *)
(***************************************************************************)
HashFile(p) ==
    LET path == walk[p].hashing IN
    /\ pc[p] = "walk" /\ path # None
    /\ \/ /\ files[path] = None
          /\ Goto(p, "refused")
          /\ UNCHANGED walk
       \/ /\ files[path] # None
          /\ walk' = [walk EXCEPT ![p] =
                 [walk[p] EXCEPT !.hashing = None,
                                !.manifest = [key \in DOMAIN @ \cup {Key(path)} |->
                                    IF key = Key(path) THEN files[path].bytes ELSE @[key]]]]
          /\ UNCHANGED pc
    /\ UNCHANGED inputVars

(* The walk is over. *)
Walked(p) ==
    /\ pc[p] = "walk"
    /\ walk[p].unlisted = {} /\ walk[p].listed = {} /\ walk[p].hashing = None

(* A file was one and the same all the while that p ran.                   *)
Untouched(p, path) == \E entry \in since[p][path] : since[p][path] = {entry}
=============================================================================
