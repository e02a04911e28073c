----------------------------- MODULE TargetLock -----------------------------
(***************************************************************************)
(* Who owns a target.  Several diskedit processes reach the same bytes     *)
(* through different names: two hard links of one image, the image and a   *)
(* loop device bound to it, a disk node and an alias of it (a by-id link). *)
(* An invocation opens its target, derives an identity from the open       *)
(* handle, takes the lock file of that identity and, for an image, a lock  *)
(* on the data file itself; it then records its scene (journal and         *)
(* checkpoint) beside the lock file, writes, lets go, and takes the locks  *)
(* once more to drop the journal.  Sources: targetlock.rs, dev/source.rs,  *)
(* dev/identity.rs, dev/topology.rs, transaction.rs, cmd/abandon.rs,       *)
(* online/pv.rs.                                                           *)
(*                                                                         *)
(* Simplifications.                                                        *)
(*  - A partition node is refused by every command that writes, so the    *)
(*    nodes here are whole disks and their aliases.                        *)
(*  - A path is a name; a directory entry maps a name to a file.  A scene  *)
(*    is one record per key: journal and checkpoint share their path rule. *)
(*  - Opening a block device for writing is O_EXCL, which can only make an *)
(*    open fail.  Here every open may succeed, so nothing that holds below *)
(*    leans on the kernel's claim.                                         *)
(*  - Lock files are inodes of their own: a handle keeps the one it opened *)
(*    even if the name is later given to another.                          *)
(*  - The system is unix (the second lock exists only there).              *)
(* Bounds: MaxEdits moves, links and removals of image names by others.  *)
(***************************************************************************)
EXTENDS Naturals, FiniteSets

CONSTANTS
    Proc,       \* invocations of diskedit, one after the other per process
    Name,       \* paths at which an image can be found
    File,       \* image files (inodes)
    Node,       \* nodes of ordinary block devices: disks and their aliases
    Disk,       \* disk keys (block_keys)
    DiskOf,     \* the disk a node is, by its stable identity
    Loop,       \* a loop device node
    Backing,    \* the file the loop device is bound to
    LoopName,   \* the name by which it was bound
    MaxEdits,
    None

Key == Name \cup Disk       \* where lock, journal and checkpoint are placed
Data == File \cup Disk      \* what is written

SceneSet == [data : Data, loop : BOOLEAN, by : Proc \cup {None}]

ASSUME TargetAssumption ==
    /\ DiskOf \in [Node -> Disk]
    /\ Backing \in File /\ LoopName \in Name
    /\ MaxEdits \in Nat
    /\ None \notin Key \cup Data \cup SceneSet
    /\ Name \cap Disk = {} /\ File \cap Disk = {}
    /\ Name \cap Node = {} /\ Loop \notin Name \cup Node

Target == Name \cup Node \cup {Loop}
Command == {"write", "plain", "online", "abandon"}

VARIABLES
    at,         \* the file a name leads to, or None
    loopName,   \* the name sysfs shows for the backing file, or None
    lockFile,   \* the inode of a key's lock file; 0 when there is none
    made,       \* how many lock files a key has had
    scene,      \* the unfinished operation recorded at a key, or None
    edits,      \* what other programs have done to the names
    pc,         \* where an invocation stands
    cmd,        \* "write" (keeps a scene), "plain" (resizefs, check: none),
                \* "online" or "abandon"
    target,     \* what its command line names
    fd,         \* the data it opened: a file or a disk; None before that
    via,        \* the name its handle goes by, until it is asked (/proc/self/fd)
    key,        \* the key of its identity
    handle,     \* the lock file inode it has open; 0 for none
    held,       \* whether it holds the lock on that inode
    ilock       \* the data file it holds the second lock on

world == <<at, loopName, edits>>
locks == <<lockFile, made>>
self == <<cmd, target, fd, via, key>>
vars == <<world, locks, scene, pc, self, handle, held, ilock>>

Through(p) == target[p] = Loop

(* What the journal and checkpoint headers remember of the target: the     *)
(* file or disk, and whether it was reached through a loop mapping; and    *)
(* the invocation whose session knows the journal as its own.              *)
SceneOf(p) == [data |-> fd[p], loop |-> Through(p), by |-> p]

IsImage(k) == k \in Name

Init ==
    /\ at \in [Name -> File \cup {None}]
    /\ loopName = LoopName /\ at[LoopName] = Backing
    /\ lockFile = [k \in Key |-> 0] /\ made = [k \in Key |-> 0]
    /\ scene = [k \in Key |-> None]
    /\ edits = 0
    /\ pc = [p \in Proc |-> "idle"]
    /\ cmd = [p \in Proc |-> "write"]
    /\ target = [p \in Proc |-> Loop]
    /\ fd = [p \in Proc |-> None]
    /\ via = [p \in Proc |-> None]
    /\ key = [p \in Proc |-> None]
    /\ handle = [p \in Proc |-> 0]
    /\ held = [p \in Proc |-> FALSE]
    /\ ilock = [p \in Proc |-> None]

-----------------------------------------------------------------------------
(* Opening: the handle first, the identity from the handle.                *)

OpenImage(p, t) ==
    /\ at[t] # None
    /\ fd' = [fd EXCEPT ![p] = at[t]]
    /\ via' = [via EXCEPT ![p] = t]
    /\ key' = key
    /\ pc' = [pc EXCEPT ![p] = "opened"]

(* loop_backed: the name sysfs shows is opened again and must lead to the  *)
(* very file the kernel has bound.                                         *)
OpenLoop(p) ==
    /\ loopName # None /\ at[loopName] = Backing
    /\ fd' = [fd EXCEPT ![p] = Backing]
    /\ via' = [via EXCEPT ![p] = loopName]
    /\ key' = key
    /\ pc' = [pc EXCEPT ![p] = "opened"]

OpenNode(p, t) ==
    /\ fd' = [fd EXCEPT ![p] = DiskOf[t]]
    /\ key' = [key EXCEPT ![p] = DiskOf[t]]
    /\ via' = via
    /\ pc' = [pc EXCEPT ![p] = "named"]

(* abandon does not open an image before it has the lock: the file may be  *)
(* gone while its scene is still there.                                    *)
NameOnly(p, t) ==
    /\ key' = [key EXCEPT ![p] = t]
    /\ pc' = [pc EXCEPT ![p] = "named"]
    /\ UNCHANGED <<fd, via>>

Open(p) ==
    /\ pc[p] = "idle"
    /\ \E c \in Command, t \in Target :
        /\ cmd' = [cmd EXCEPT ![p] = c]
        /\ target' = [target EXCEPT ![p] = t]
        /\ \/ t = Loop /\ OpenLoop(p)
           \/ t \in Node /\ OpenNode(p, t)
           \/ t \in Name /\ c \in {"write", "plain"} /\ OpenImage(p, t)
           \/ t \in Name /\ c = "abandon" /\ NameOnly(p, t)
    /\ UNCHANGED <<world, locks, scene, handle, held, ilock>>

Forget(p) ==
    /\ pc' = [pc EXCEPT ![p] = "idle"]
    /\ fd' = [fd EXCEPT ![p] = None]
    /\ via' = [via EXCEPT ![p] = None]
    /\ key' = [key EXCEPT ![p] = None]
    /\ cmd' = [cmd EXCEPT ![p] = "write"]
    /\ target' = [target EXCEPT ![p] = Loop]

(* Closing a handle releases its lock and leaves the lock file in place:   *)
(* removing it would let a second process lock a file nobody can reach.    *)
(* Mutant: the lock file is removed when the lock is released.             *)
LetGoAndRemove(p) ==
    /\ handle' = [handle EXCEPT ![p] = 0]
    /\ held' = [held EXCEPT ![p] = FALSE]
    /\ ilock' = [ilock EXCEPT ![p] = None]
    /\ made' = made
    /\ lockFile' = [k \in Key |-> IF held[p] /\ k = key[p] THEN 0 ELSE lockFile[k]]

LetGo(p) ==
    /\ handle' = [handle EXCEPT ![p] = 0]
    /\ held' = [held EXCEPT ![p] = FALSE]
    /\ ilock' = [ilock EXCEPT ![p] = None]
    /\ UNCHANGED locks

(* The session dies with its process; the records stay.                    *)
Orphaned(p) ==
    [k \in Key |-> IF scene[k] # None /\ scene[k].by = p
                   THEN [scene[k] EXCEPT !.by = None] ELSE scene[k]]

(* A refusal, an error or a kill: every lock goes with the process.        *)
Quit(p) ==
    /\ pc[p] # "idle"
    /\ LetGo(p) /\ Forget(p)
    /\ scene' = Orphaned(p)
    /\ UNCHANGED world

(* identity_of_opened_image: the name of the handle is the identity, and   *)
(* the literal path must still lead to the opened file.                    *)
Resolve(p) ==
    /\ pc[p] = "opened"
    /\ via[p] # None
    /\ ~Through(p) => at[target[p]] = fd[p]
    /\ key' = [key EXCEPT ![p] = via[p]]
    /\ via' = [via EXCEPT ![p] = None]
    /\ pc' = [pc EXCEPT ![p] = "named"]
    /\ UNCHANGED <<world, locks, scene, cmd, target, fd, handle, held, ilock>>

-----------------------------------------------------------------------------
(* TargetLock::acquire.                                                    *)

OpenLock(p) ==
    /\ pc[p] \in {"named", "closing"}
    /\ LET k == key[p] IN
        IF lockFile[k] = 0
        THEN /\ made' = [made EXCEPT ![k] = @ + 1]
             /\ lockFile' = [lockFile EXCEPT ![k] = made[k] + 1]
             /\ handle' = [handle EXCEPT ![p] = made[k] + 1]
        ELSE /\ handle' = [handle EXCEPT ![p] = lockFile[k]]
             /\ UNCHANGED locks
    /\ pc' = [pc EXCEPT ![p] = IF pc[p] = "named" THEN "locking" ELSE "relocking"]
    /\ UNCHANGED <<world, scene, self, held, ilock>>

Busy(k, h) == \E q \in Proc : held[q] /\ key[q] = k /\ handle[q] = h

TryLock(p) ==
    /\ pc[p] \in {"locking", "relocking"}
    /\ ~Busy(key[p], handle[p])
    /\ held' = [held EXCEPT ![p] = TRUE]
    /\ pc' = [pc EXCEPT ![p] = IF pc[p] = "locking" THEN "locked" ELSE "relocked"]
    /\ UNCHANGED <<world, locks, scene, self, handle, ilock>>

(* The fingerprint the caller gives: commands that opened the file do,     *)
(* abandon and the online path do not.                                     *)
Expects(p) == cmd[p] \in {"write", "plain"}

(* Mutant: the data path is locked without asking what it leads to.        *)
DataLockUnasked(p) ==
    IF ~IsImage(key[p]) THEN ilock' = ilock
    ELSE LET f == at[key[p]] IN
         IF f = None THEN ~Expects(p) /\ ilock' = ilock
         ELSE /\ \A q \in Proc : ilock[q] # f
              /\ ilock' = [ilock EXCEPT ![p] = f]

DataLock(p) ==
    IF ~IsImage(key[p]) THEN ilock' = ilock
    ELSE LET f == at[key[p]] IN
         IF f = None THEN ~Expects(p) /\ ilock' = ilock
         ELSE /\ Expects(p) => f = fd[p]
              /\ \A q \in Proc : ilock[q] # f
              /\ ilock' = [ilock EXCEPT ![p] = f]

TakeData(p) ==
    /\ pc[p] \in {"locked", "relocked"}
    /\ DataLock(p)
    /\ pc' = [pc EXCEPT ![p] = IF pc[p] = "locked" THEN "owner" ELSE "dropping"]
    /\ UNCHANGED <<world, locks, scene, self, handle, held>>

-----------------------------------------------------------------------------
(* Under the lock.                                                         *)

(* scene_mismatch: same file or disk, reached the same way.                *)
Matches(s, data, loop) == s.data = data /\ s.loop = loop

(* begin_or_resume: a fresh scene, or the adoption of one that matches; an *)
(* entry point that takes no scene over leaves through Quit instead.       *)
Begin(p) ==
    /\ pc[p] = "owner" /\ cmd[p] = "write"
    /\ scene[key[p]] # None => Matches(scene[key[p]], fd[p], Through(p))
    /\ scene' = [scene EXCEPT ![key[p]] = SceneOf(p)]
    /\ pc' = [pc EXCEPT ![p] = "writing"]
    /\ UNCHANGED <<world, locks, self, handle, held, ilock>>

(* refuse_if_active: a command that keeps no scene refuses a target that   *)
(* has one, and leaves through Quit when it is done.                       *)
BeginPlain(p) ==
    /\ pc[p] = "owner" /\ cmd[p] = "plain"
    /\ scene[key[p]] = None
    /\ pc' = [pc EXCEPT ![p] = "writing"]
    /\ UNCHANGED <<world, locks, scene, self, handle, held, ilock>>

(* The online path keeps no scene: it refuses a target that has one        *)
(* (refuse_if_scene_active), after asking once more under the lock whether *)
(* the target still has the identity that was locked (verify_lock_identity).*)
BeginOnline(p) ==
    /\ pc[p] = "owner" /\ cmd[p] = "online"
    /\ scene[key[p]] = None
    /\ Through(p) => loopName = key[p] /\ at[key[p]] = Backing
    /\ pc' = [pc EXCEPT ![p] = "writing"]
    /\ UNCHANGED <<world, locks, scene, self, handle, held, ilock>>

(* abandon: the target is opened read-only to compare the scene with; a    *)
(* name that leads nowhere leaves nothing to compare.  A loop device is    *)
(* opened as if it were an image file, and the node is nobody's data.      *)
Opened(p) ==
    CASE Through(p)         -> {[data |-> Loop, loop |-> FALSE]}
      [] target[p] \in Node -> {[data |-> DiskOf[target[p]], loop |-> FALSE]}
      [] OTHER -> {[data |-> f, loop |-> FALSE] : f \in {at[target[p]]} \ {None}}

Abandon(p) ==
    /\ pc[p] = "owner" /\ cmd[p] = "abandon"
    /\ scene[key[p]] # None
    /\ \A o \in Opened(p) : Matches(scene[key[p]], o.data, o.loop)
    /\ scene' = [scene EXCEPT ![key[p]] = None]
    /\ LetGo(p) /\ Forget(p)
    /\ UNCHANGED world

(* The command is done: its source is dropped and the locks with it; what  *)
(* remains is the journal, which commit drops under the lock.              *)
Finish(p) ==
    /\ pc[p] = "writing" /\ cmd[p] = "write"
    /\ LetGo(p)
    /\ pc' = [pc EXCEPT ![p] = "closing"]
    /\ UNCHANGED <<world, scene, self>>

(* undo replays and removes its journal before it lets go.                 *)
Undone(p) ==
    /\ pc[p] = "writing" /\ cmd[p] = "write"
    /\ scene' = [scene EXCEPT ![key[p]] = None]
    /\ LetGo(p) /\ Forget(p)
    /\ UNCHANGED world

(* commit: only the journal this transaction opened or created is dropped. *)
Commit(p) ==
    /\ pc[p] = "dropping"
    /\ scene' = [scene EXCEPT ![key[p]] =
                    IF @ # None /\ @.by = p THEN None ELSE @]
    /\ LetGo(p) /\ Forget(p)
    /\ UNCHANGED world

-----------------------------------------------------------------------------
(* Other programs: mv, ln, rm.  A handle follows the entry it was opened   *)
(* through, and so does the loop device.                                   *)

Moved(v, a, b) == IF v = a THEN b ELSE IF v = b THEN None ELSE v

Rename(a, b) ==
    /\ at[a] # None /\ at[a] # at[b]
    /\ at' = [at EXCEPT ![b] = at[a], ![a] = None]
    /\ via' = [p \in Proc |-> Moved(via[p], a, b)]
    /\ loopName' = Moved(loopName, a, b)

Link(a, b) ==
    /\ at[a] # None /\ at[b] = None
    /\ at' = [at EXCEPT ![b] = at[a]]
    /\ UNCHANGED <<via, loopName>>

Unlink(a, b) ==
    /\ a = b /\ at[a] # None
    /\ at' = [at EXCEPT ![a] = None]
    /\ via' = [p \in Proc |-> Moved(via[p], a, None)]
    /\ loopName' = Moved(loopName, a, None)

(* A file kept elsewhere is moved here, over whatever was here.            *)
Replace(a, b) ==
    /\ a = b
    /\ \E f \in File :
        /\ \A n \in Name : at[n] # f
        /\ at' = [at EXCEPT ![a] = f]
    /\ via' = [p \in Proc |-> Moved(via[p], a, None)]
    /\ loopName' = Moved(loopName, a, None)

Edit ==
    /\ edits < MaxEdits
    /\ edits' = edits + 1
    /\ \E a, b \in Name : Rename(a, b) \/ Link(a, b) \/ Unlink(a, b) \/ Replace(a, b)
    /\ UNCHANGED <<locks, scene, pc, cmd, target, fd, key, handle, held, ilock>>

-----------------------------------------------------------------------------
Step(p) ==
    \/ Open(p) \/ Resolve(p) \/ OpenLock(p) \/ TryLock(p) \/ TakeData(p)
    \/ Begin(p) \/ BeginPlain(p) \/ BeginOnline(p) \/ Abandon(p)
    \/ Finish(p) \/ Undone(p) \/ Commit(p) \/ Quit(p)

Next == Edit \/ \E p \in Proc : Step(p)

Spec == Init /\ [][Next]_vars

-----------------------------------------------------------------------------
TypeOK ==
    /\ at \in [Name -> File \cup {None}]
    /\ loopName \in Name \cup {None}
    /\ lockFile \in [Key -> Nat]
    /\ made \in [Key -> Nat]
    /\ scene \in [Key -> SceneSet \cup {None}]
    /\ edits \in 0..MaxEdits
    /\ pc \in [Proc -> {"idle", "opened", "named", "locking", "locked", "owner",
                        "writing", "closing", "relocking", "relocked", "dropping"}]
    /\ cmd \in [Proc -> Command]
    /\ target \in [Proc -> Target]
    /\ fd \in [Proc -> Data \cup {None}]
    /\ via \in [Proc -> Name \cup {None}]
    /\ key \in [Proc -> Key \cup {None}]
    /\ handle \in [Proc -> Nat]
    /\ held \in [Proc -> BOOLEAN]
    /\ ilock \in [Proc -> File \cup {None}]

(* The online path takes its locks without a fingerprint (acquire with     *)
(* None): when the image is elsewhere at that moment and back before the   *)
(* identity is asked again, its second lock is on another file or missing. *)
Misled(p) == cmd[p] = "online" /\ fd[p] \in File /\ ilock[p] # fd[p]

(* Two invocations never write the same data at once, whichever names they *)
(* reached it by and whatever happens to those names meanwhile: two hard   *)
(* links, an image and the loop device over it, a disk and an alias of it. *)
(* The one exception the code leaves open is the online path above.        *)
DataExclusive ==
    \A p, q \in Proc :
        /\ pc[p] = "writing" /\ pc[q] = "writing" /\ fd[p] = fd[q]
        /\ ~Misled(p) /\ ~Misled(q)
        => p = q

(* While a command writes, the scene at its key is its own: nobody has     *)
(* replaced, abandoned, undone or dropped it, and no second operation was  *)
(* recorded over it.  It is what a crash at that moment is recovered from. *)
(* While a command that keeps none writes, no unfinished operation is      *)
(* recorded there, whose replay would put old bytes over the new ones.     *)
SceneKept ==
    \A p \in Proc :
        pc[p] = "writing" =>
            scene[key[p]] = IF cmd[p] = "write" THEN SceneOf(p) ELSE None
=============================================================================
