-------------------------- MODULE TargetLockProofs --------------------------
(* Proofs about TargetLock, for any processes, names, files and disks, and *)
(* however often other programs move, link, replace or remove the images.  *)
EXTENDS TargetLock, TLAPS

(* Where an invocation has the lock on the lock file it opened.            *)
Holding == {"locked", "owner", "writing", "relocked", "dropping"}

(* A lock file, once made, is the lock file of its key for good.           *)
LockFilesStay ==
    \A k \in Key : lockFile[k] = made[k] /\ lockFile[k] \in {0, 1}

(* The handle of whoever has opened a lock file is that one file.          *)
HandlesReal ==
    \A p \in Proc :
        pc[p] \in Holding \cup {"locking", "relocking"} =>
            handle[p] = 1 /\ lockFile[key[p]] = 1

HeldByPlace == \A p \in Proc : held[p] <=> pc[p] \in Holding

(* At most one invocation is past the lock of a key.                       *)
KeyExclusive ==
    \A p, q \in Proc : held[p] /\ held[q] /\ key[p] = key[q] => p = q

FileExclusive ==
    \A p, q \in Proc : ilock[p] # None /\ ilock[p] = ilock[q] => p = q

(* Who has a key has an identity of the right kind: an image's key is a    *)
(* name, a disk's key is the disk itself.                                  *)
KeyFits ==
    \A p \in Proc :
        /\ pc[p] \notin {"idle", "opened"} => key[p] \in Key
        /\ pc[p] = "opened" => fd[p] \in File
        /\ pc[p] \notin {"idle", "opened"} /\ cmd[p] # "abandon" =>
            \/ fd[p] \in File /\ key[p] \in Name
            \/ fd[p] \in Disk /\ key[p] = fd[p]

(* A command that opened a file holds the second lock on that very file.   *)
Secured ==
    \A p \in Proc :
        pc[p] \in {"owner", "writing"} /\ Expects(p) /\ fd[p] \in File
            => ilock[p] = fd[p]

WritersWrite == \A p \in Proc : pc[p] = "writing" => cmd[p] # "abandon"

IInv ==
    /\ TypeOK
    /\ LockFilesStay /\ HandlesReal /\ HeldByPlace /\ KeyExclusive
    /\ FileExclusive /\ KeyFits /\ Secured /\ WritersWrite
    /\ SceneKept

-----------------------------------------------------------------------------
(* The strengthening is inductive: a lemma per action, a step per conjunct.*)

LEMMA OpenKeeps == ASSUME IInv, NEW p \in Proc, Open(p) PROVE IInv'
<1> USE TargetAssumption DEF IInv
<1>1. TypeOK'
  BY DEF Open, OpenImage, OpenLoop, OpenNode, NameOnly, world, locks, self, TypeOK, Command, Target, Key, Data, SceneSet, SceneOf, Through
<1>2. LockFilesStay'
  BY DEF Open, OpenImage, OpenLoop, OpenNode, NameOnly, world, locks, self, TypeOK, Command, LockFilesStay
<1>3. HandlesReal'
  BY DEF Open, OpenImage, OpenLoop, OpenNode, NameOnly, world, locks, self, TypeOK, Command, LockFilesStay, HandlesReal, KeyFits, Holding
<1>4. HeldByPlace'
  BY DEF Open, OpenImage, OpenLoop, OpenNode, NameOnly, world, locks, self, TypeOK, Command, HeldByPlace, Holding
<1>5. KeyExclusive'
  BY DEF Open, OpenImage, OpenLoop, OpenNode, NameOnly, world, locks, self, TypeOK, Command, KeyExclusive, HeldByPlace, HandlesReal, Holding
<1>6. FileExclusive'
  BY DEF Open, OpenImage, OpenLoop, OpenNode, NameOnly, world, locks, self, TypeOK, Command, FileExclusive
<1>7. KeyFits'
  BY DEF Open, OpenImage, OpenLoop, OpenNode, NameOnly, world, locks, self, TypeOK, Command, KeyFits, Key, Data, Target
<1>8. Secured'
  BY DEF Open, OpenImage, OpenLoop, OpenNode, NameOnly, world, locks, self, TypeOK, Command, Secured, Expects, KeyFits
<1>9. WritersWrite'
  BY DEF Open, OpenImage, OpenLoop, OpenNode, NameOnly, world, locks, self, TypeOK, Command, WritersWrite
<1>10. SceneKept'
  BY DEF Open, OpenImage, OpenLoop, OpenNode, NameOnly, world, locks, self, TypeOK, Command, SceneKept, SceneOf, Through, KeyExclusive, HeldByPlace, KeyFits, Holding
<1> QED BY <1>1, <1>2, <1>3, <1>4, <1>5, <1>6, <1>7, <1>8, <1>9, <1>10

LEMMA ResolveKeeps == ASSUME IInv, NEW p \in Proc, Resolve(p) PROVE IInv'
<1> USE TargetAssumption DEF IInv
<1>1. TypeOK'
  BY DEF Resolve, Through, world, locks, self, TypeOK, Target, Key, Data, SceneSet, SceneOf, Through
<1>2. LockFilesStay'
  BY DEF Resolve, Through, world, locks, self, TypeOK, LockFilesStay
<1>3. HandlesReal'
  BY DEF Resolve, Through, world, locks, self, TypeOK, LockFilesStay, HandlesReal, KeyFits, Holding
<1>4. HeldByPlace'
  BY DEF Resolve, Through, world, locks, self, TypeOK, HeldByPlace, Holding
<1>5. KeyExclusive'
  BY DEF Resolve, Through, world, locks, self, TypeOK, KeyExclusive, HeldByPlace, HandlesReal, Holding
<1>6. FileExclusive'
  BY DEF Resolve, Through, world, locks, self, TypeOK, FileExclusive
<1>7. KeyFits'
  BY DEF Resolve, Through, world, locks, self, TypeOK, KeyFits, Key, Data, Target
<1>8. Secured'
  BY DEF Resolve, Through, world, locks, self, TypeOK, Secured, Expects, KeyFits
<1>9. WritersWrite'
  BY DEF Resolve, Through, world, locks, self, TypeOK, WritersWrite
<1>10. SceneKept'
  BY DEF Resolve, Through, world, locks, self, TypeOK, SceneKept, SceneOf, Through, KeyExclusive, HeldByPlace, KeyFits, Holding
<1> QED BY <1>1, <1>2, <1>3, <1>4, <1>5, <1>6, <1>7, <1>8, <1>9, <1>10

LEMMA OpenLockKeeps == ASSUME IInv, NEW p \in Proc, OpenLock(p) PROVE IInv'
<1> USE TargetAssumption DEF IInv
<1>1. TypeOK'
  <2>1. key[p] \in Key
    BY DEF OpenLock, KeyFits
  <2>2. lockFile[key[p]] \in Nat /\ made[key[p]] + 1 \in Nat
    BY <2>1 DEF TypeOK
  <2> QED BY <2>1, <2>2 DEF OpenLock, world, locks, self, TypeOK
<1>2. LockFilesStay'
  BY DEF OpenLock, world, locks, self, TypeOK, LockFilesStay
<1>3. HandlesReal'
  BY DEF OpenLock, world, locks, self, TypeOK, LockFilesStay, HandlesReal, KeyFits, Holding
<1>4. HeldByPlace'
  BY DEF OpenLock, world, locks, self, TypeOK, HeldByPlace, Holding
<1>5. KeyExclusive'
  BY DEF OpenLock, world, locks, self, TypeOK, KeyExclusive, HeldByPlace, HandlesReal, Holding
<1>6. FileExclusive'
  BY DEF OpenLock, world, locks, self, TypeOK, FileExclusive
<1>7. KeyFits'
  BY DEF OpenLock, world, locks, self, TypeOK, KeyFits, Key, Data, Target
<1>8. Secured'
  BY DEF OpenLock, world, locks, self, TypeOK, Secured, Expects, KeyFits
<1>9. WritersWrite'
  BY DEF OpenLock, world, locks, self, TypeOK, WritersWrite
<1>10. SceneKept'
  BY DEF OpenLock, world, locks, self, TypeOK, SceneKept, SceneOf, Through, KeyExclusive, HeldByPlace, KeyFits, Holding
<1> QED BY <1>1, <1>2, <1>3, <1>4, <1>5, <1>6, <1>7, <1>8, <1>9, <1>10

LEMMA TryLockKeeps == ASSUME IInv, NEW p \in Proc, TryLock(p) PROVE IInv'
<1> USE TargetAssumption DEF IInv
<1>1. TypeOK'
  BY DEF TryLock, Busy, world, locks, self, TypeOK, Target, Key, Data, SceneSet, SceneOf, Through
<1>2. LockFilesStay'
  BY DEF TryLock, Busy, world, locks, self, TypeOK, LockFilesStay
<1>3. HandlesReal'
  BY DEF TryLock, Busy, world, locks, self, TypeOK, LockFilesStay, HandlesReal, KeyFits, Holding
<1>4. HeldByPlace'
  BY DEF TryLock, Busy, world, locks, self, TypeOK, HeldByPlace, Holding
<1>5. KeyExclusive'
  BY DEF TryLock, Busy, world, locks, self, TypeOK, KeyExclusive, HeldByPlace, HandlesReal, Holding
<1>6. FileExclusive'
  BY DEF TryLock, Busy, world, locks, self, TypeOK, FileExclusive
<1>7. KeyFits'
  BY DEF TryLock, Busy, world, locks, self, TypeOK, KeyFits, Key, Data, Target
<1>8. Secured'
  BY DEF TryLock, Busy, world, locks, self, TypeOK, Secured, Expects, KeyFits
<1>9. WritersWrite'
  BY DEF TryLock, Busy, world, locks, self, TypeOK, WritersWrite
<1>10. SceneKept'
  BY DEF TryLock, Busy, world, locks, self, TypeOK, SceneKept, SceneOf, Through, KeyExclusive, HeldByPlace, KeyFits, Holding
<1> QED BY <1>1, <1>2, <1>3, <1>4, <1>5, <1>6, <1>7, <1>8, <1>9, <1>10

LEMMA TakeDataKeeps == ASSUME IInv, NEW p \in Proc, TakeData(p) PROVE IInv'
<1> USE TargetAssumption DEF IInv
<1>1. TypeOK'
  BY DEF TakeData, DataLock, IsImage, Expects, world, locks, self, TypeOK, Target, Key, Data, SceneSet, SceneOf, Through
<1>2. LockFilesStay'
  BY DEF TakeData, DataLock, IsImage, Expects, world, locks, self, TypeOK, LockFilesStay
<1>3. HandlesReal'
  BY DEF TakeData, DataLock, IsImage, Expects, world, locks, self, TypeOK, LockFilesStay, HandlesReal, KeyFits, Holding
<1>4. HeldByPlace'
  BY DEF TakeData, DataLock, IsImage, Expects, world, locks, self, TypeOK, HeldByPlace, Holding
<1>5. KeyExclusive'
  BY DEF TakeData, DataLock, IsImage, Expects, world, locks, self, TypeOK, KeyExclusive, HeldByPlace, HandlesReal, Holding
<1>6. FileExclusive'
  BY DEF TakeData, DataLock, IsImage, Expects, world, locks, self, TypeOK, FileExclusive
<1>7. KeyFits'
  BY DEF TakeData, DataLock, IsImage, Expects, world, locks, self, TypeOK, KeyFits, Key, Data, Target
<1>8. Secured'
  BY DEF TakeData, DataLock, IsImage, Expects, world, locks, self, TypeOK, Secured, KeyFits
<1>9. WritersWrite'
  BY DEF TakeData, DataLock, IsImage, Expects, world, locks, self, TypeOK, WritersWrite
<1>10. SceneKept'
  BY DEF TakeData, DataLock, IsImage, Expects, world, locks, self, TypeOK, SceneKept, SceneOf, Through, KeyExclusive, HeldByPlace, KeyFits, Holding
<1> QED BY <1>1, <1>2, <1>3, <1>4, <1>5, <1>6, <1>7, <1>8, <1>9, <1>10

LEMMA BeginKeeps == ASSUME IInv, NEW p \in Proc, Begin(p) PROVE IInv'
<1> USE TargetAssumption DEF IInv
<1>1. TypeOK'
  <2>1. key[p] \in Key /\ fd[p] \in Data
    BY DEF Begin, TypeOK, KeyFits, Data
  <2>2. SceneOf(p) \in SceneSet
    BY <2>1 DEF SceneOf, SceneSet, Through
  <2> QED BY <2>1, <2>2 DEF Begin, world, locks, self, TypeOK
<1>2. LockFilesStay'
  BY DEF Begin, world, locks, self, TypeOK, LockFilesStay
<1>3. HandlesReal'
  BY DEF Begin, world, locks, self, TypeOK, LockFilesStay, HandlesReal, KeyFits, Holding
<1>4. HeldByPlace'
  BY DEF Begin, world, locks, self, TypeOK, HeldByPlace, Holding
<1>5. KeyExclusive'
  BY DEF Begin, world, locks, self, TypeOK, KeyExclusive, HeldByPlace, HandlesReal, Holding
<1>6. FileExclusive'
  BY DEF Begin, world, locks, self, TypeOK, FileExclusive
<1>7. KeyFits'
  BY DEF Begin, world, locks, self, TypeOK, KeyFits, Key, Data, Target
<1>8. Secured'
  BY DEF Begin, world, locks, self, TypeOK, Secured, Expects, KeyFits
<1>9. WritersWrite'
  BY DEF Begin, world, locks, self, TypeOK, WritersWrite
<1>10. SceneKept'
  BY DEF Begin, world, locks, self, TypeOK, SceneKept, SceneOf, Through, KeyExclusive, HeldByPlace, KeyFits, Holding
<1> QED BY <1>1, <1>2, <1>3, <1>4, <1>5, <1>6, <1>7, <1>8, <1>9, <1>10

LEMMA BeginPlainKeeps == ASSUME IInv, NEW p \in Proc, BeginPlain(p) PROVE IInv'
<1> USE TargetAssumption DEF IInv
<1>1. TypeOK'
  BY DEF BeginPlain, world, locks, self, TypeOK, Target, Key, Data, SceneSet, SceneOf, Through
<1>2. LockFilesStay'
  BY DEF BeginPlain, world, locks, self, TypeOK, LockFilesStay
<1>3. HandlesReal'
  BY DEF BeginPlain, world, locks, self, TypeOK, LockFilesStay, HandlesReal, KeyFits, Holding
<1>4. HeldByPlace'
  BY DEF BeginPlain, world, locks, self, TypeOK, HeldByPlace, Holding
<1>5. KeyExclusive'
  BY DEF BeginPlain, world, locks, self, TypeOK, KeyExclusive, HeldByPlace, HandlesReal, Holding
<1>6. FileExclusive'
  BY DEF BeginPlain, world, locks, self, TypeOK, FileExclusive
<1>7. KeyFits'
  BY DEF BeginPlain, world, locks, self, TypeOK, KeyFits, Key, Data, Target
<1>8. Secured'
  BY DEF BeginPlain, world, locks, self, TypeOK, Secured, Expects, KeyFits
<1>9. WritersWrite'
  BY DEF BeginPlain, world, locks, self, TypeOK, WritersWrite
<1>10. SceneKept'
  BY DEF BeginPlain, world, locks, self, TypeOK, SceneKept, SceneOf, Through, KeyExclusive, HeldByPlace, KeyFits, Holding
<1> QED BY <1>1, <1>2, <1>3, <1>4, <1>5, <1>6, <1>7, <1>8, <1>9, <1>10

LEMMA BeginOnlineKeeps == ASSUME IInv, NEW p \in Proc, BeginOnline(p) PROVE IInv'
<1> USE TargetAssumption DEF IInv
<1>1. TypeOK'
  BY DEF BeginOnline, world, locks, self, TypeOK, Target, Key, Data, SceneSet, SceneOf, Through
<1>2. LockFilesStay'
  BY DEF BeginOnline, world, locks, self, TypeOK, LockFilesStay
<1>3. HandlesReal'
  BY DEF BeginOnline, world, locks, self, TypeOK, LockFilesStay, HandlesReal, KeyFits, Holding
<1>4. HeldByPlace'
  BY DEF BeginOnline, world, locks, self, TypeOK, HeldByPlace, Holding
<1>5. KeyExclusive'
  BY DEF BeginOnline, world, locks, self, TypeOK, KeyExclusive, HeldByPlace, HandlesReal, Holding
<1>6. FileExclusive'
  BY DEF BeginOnline, world, locks, self, TypeOK, FileExclusive
<1>7. KeyFits'
  BY DEF BeginOnline, world, locks, self, TypeOK, KeyFits, Key, Data, Target
<1>8. Secured'
  BY DEF BeginOnline, world, locks, self, TypeOK, Secured, Expects, KeyFits
<1>9. WritersWrite'
  BY DEF BeginOnline, world, locks, self, TypeOK, WritersWrite
<1>10. SceneKept'
  BY DEF BeginOnline, world, locks, self, TypeOK, SceneKept, SceneOf, Through, KeyExclusive, HeldByPlace, KeyFits, Holding
<1> QED BY <1>1, <1>2, <1>3, <1>4, <1>5, <1>6, <1>7, <1>8, <1>9, <1>10

LEMMA AbandonKeeps == ASSUME IInv, NEW p \in Proc, Abandon(p) PROVE IInv'
<1> USE TargetAssumption DEF IInv
<1>1. TypeOK'
  BY DEF Abandon, LetGo, Forget, world, locks, self, TypeOK, Command, Target, Key, Data, SceneSet, SceneOf, Through
<1>2. LockFilesStay'
  BY DEF Abandon, LetGo, Forget, world, locks, self, TypeOK, Command, LockFilesStay
<1>3. HandlesReal'
  BY DEF Abandon, LetGo, Forget, world, locks, self, TypeOK, Command, LockFilesStay, HandlesReal, KeyFits, Holding
<1>4. HeldByPlace'
  BY DEF Abandon, LetGo, Forget, world, locks, self, TypeOK, Command, HeldByPlace, Holding
<1>5. KeyExclusive'
  BY DEF Abandon, LetGo, Forget, world, locks, self, TypeOK, Command, KeyExclusive, HeldByPlace, HandlesReal, Holding
<1>6. FileExclusive'
  BY DEF Abandon, LetGo, Forget, world, locks, self, TypeOK, Command, FileExclusive
<1>7. KeyFits'
  BY DEF Abandon, LetGo, Forget, world, locks, self, TypeOK, Command, KeyFits, Key, Data, Target
<1>8. Secured'
  BY DEF Abandon, LetGo, Forget, world, locks, self, TypeOK, Command, Secured, Expects, KeyFits
<1>9. WritersWrite'
  BY DEF Abandon, LetGo, Forget, world, locks, self, TypeOK, Command, WritersWrite
<1>10. SceneKept'
  BY DEF Abandon, LetGo, Forget, world, locks, self, TypeOK, Command, SceneKept, SceneOf, Through, KeyExclusive, HeldByPlace, KeyFits, Holding
<1> QED BY <1>1, <1>2, <1>3, <1>4, <1>5, <1>6, <1>7, <1>8, <1>9, <1>10

LEMMA FinishKeeps == ASSUME IInv, NEW p \in Proc, Finish(p) PROVE IInv'
<1> USE TargetAssumption DEF IInv
<1>1. TypeOK'
  BY DEF Finish, LetGo, world, locks, self, TypeOK, Target, Key, Data, SceneSet, SceneOf, Through
<1>2. LockFilesStay'
  BY DEF Finish, LetGo, world, locks, self, TypeOK, LockFilesStay
<1>3. HandlesReal'
  BY DEF Finish, LetGo, world, locks, self, TypeOK, LockFilesStay, HandlesReal, KeyFits, Holding
<1>4. HeldByPlace'
  BY DEF Finish, LetGo, world, locks, self, TypeOK, HeldByPlace, Holding
<1>5. KeyExclusive'
  BY DEF Finish, LetGo, world, locks, self, TypeOK, KeyExclusive, HeldByPlace, HandlesReal, Holding
<1>6. FileExclusive'
  BY DEF Finish, LetGo, world, locks, self, TypeOK, FileExclusive
<1>7. KeyFits'
  BY DEF Finish, LetGo, world, locks, self, TypeOK, KeyFits, Key, Data, Target
<1>8. Secured'
  BY DEF Finish, LetGo, world, locks, self, TypeOK, Secured, Expects, KeyFits
<1>9. WritersWrite'
  BY DEF Finish, LetGo, world, locks, self, TypeOK, WritersWrite
<1>10. SceneKept'
  BY DEF Finish, LetGo, world, locks, self, TypeOK, SceneKept, SceneOf, Through, KeyExclusive, HeldByPlace, KeyFits, Holding
<1> QED BY <1>1, <1>2, <1>3, <1>4, <1>5, <1>6, <1>7, <1>8, <1>9, <1>10

LEMMA UndoneKeeps == ASSUME IInv, NEW p \in Proc, Undone(p) PROVE IInv'
<1> USE TargetAssumption DEF IInv
<1>1. TypeOK'
  BY DEF Undone, LetGo, Forget, world, locks, self, TypeOK, Command, Target, Key, Data, SceneSet, SceneOf, Through
<1>2. LockFilesStay'
  BY DEF Undone, LetGo, Forget, world, locks, self, TypeOK, Command, LockFilesStay
<1>3. HandlesReal'
  BY DEF Undone, LetGo, Forget, world, locks, self, TypeOK, Command, LockFilesStay, HandlesReal, KeyFits, Holding
<1>4. HeldByPlace'
  BY DEF Undone, LetGo, Forget, world, locks, self, TypeOK, Command, HeldByPlace, Holding
<1>5. KeyExclusive'
  BY DEF Undone, LetGo, Forget, world, locks, self, TypeOK, Command, KeyExclusive, HeldByPlace, HandlesReal, Holding
<1>6. FileExclusive'
  BY DEF Undone, LetGo, Forget, world, locks, self, TypeOK, Command, FileExclusive
<1>7. KeyFits'
  BY DEF Undone, LetGo, Forget, world, locks, self, TypeOK, Command, KeyFits, Key, Data, Target
<1>8. Secured'
  BY DEF Undone, LetGo, Forget, world, locks, self, TypeOK, Command, Secured, Expects, KeyFits
<1>9. WritersWrite'
  BY DEF Undone, LetGo, Forget, world, locks, self, TypeOK, Command, WritersWrite
<1>10. SceneKept'
  BY DEF Undone, LetGo, Forget, world, locks, self, TypeOK, Command, SceneKept, SceneOf, Through, KeyExclusive, HeldByPlace, KeyFits, Holding
<1> QED BY <1>1, <1>2, <1>3, <1>4, <1>5, <1>6, <1>7, <1>8, <1>9, <1>10

LEMMA CommitKeeps == ASSUME IInv, NEW p \in Proc, Commit(p) PROVE IInv'
<1> USE TargetAssumption DEF IInv
<1>1. TypeOK'
  BY DEF Commit, LetGo, Forget, world, locks, self, TypeOK, Command, Target, Key, Data, SceneSet, SceneOf, Through
<1>2. LockFilesStay'
  BY DEF Commit, LetGo, Forget, world, locks, self, TypeOK, Command, LockFilesStay
<1>3. HandlesReal'
  BY DEF Commit, LetGo, Forget, world, locks, self, TypeOK, Command, LockFilesStay, HandlesReal, KeyFits, Holding
<1>4. HeldByPlace'
  BY DEF Commit, LetGo, Forget, world, locks, self, TypeOK, Command, HeldByPlace, Holding
<1>5. KeyExclusive'
  BY DEF Commit, LetGo, Forget, world, locks, self, TypeOK, Command, KeyExclusive, HeldByPlace, HandlesReal, Holding
<1>6. FileExclusive'
  BY DEF Commit, LetGo, Forget, world, locks, self, TypeOK, Command, FileExclusive
<1>7. KeyFits'
  BY DEF Commit, LetGo, Forget, world, locks, self, TypeOK, Command, KeyFits, Key, Data, Target
<1>8. Secured'
  BY DEF Commit, LetGo, Forget, world, locks, self, TypeOK, Command, Secured, Expects, KeyFits
<1>9. WritersWrite'
  BY DEF Commit, LetGo, Forget, world, locks, self, TypeOK, Command, WritersWrite
<1>10. SceneKept'
  BY DEF Commit, LetGo, Forget, world, locks, self, TypeOK, Command, SceneKept, SceneOf, Through, KeyExclusive, HeldByPlace, KeyFits, Holding
<1> QED BY <1>1, <1>2, <1>3, <1>4, <1>5, <1>6, <1>7, <1>8, <1>9, <1>10

LEMMA QuitKeeps == ASSUME IInv, NEW p \in Proc, Quit(p) PROVE IInv'
<1> USE TargetAssumption DEF IInv
<1>a. scene' \in [Key -> SceneSet \cup {None}]
  <2> SUFFICES ASSUME NEW k \in Key, scene[k] # None
               PROVE  [scene[k] EXCEPT !.by = None] \in SceneSet
    BY DEF Quit, Orphaned, TypeOK
  <2> QED BY DEF TypeOK, SceneSet
<1>1. TypeOK'
  BY <1>a DEF Quit, LetGo, Forget, world, locks, self, TypeOK, Command, Target, Key, Data, Through
<1>2. LockFilesStay'
  BY DEF Quit, LetGo, Forget, world, locks, self, TypeOK, Command, LockFilesStay
<1>3. HandlesReal'
  BY DEF Quit, LetGo, Forget, world, locks, self, TypeOK, Command, LockFilesStay, HandlesReal, KeyFits, Holding
<1>4. HeldByPlace'
  BY DEF Quit, LetGo, Forget, world, locks, self, TypeOK, Command, HeldByPlace, Holding
<1>5. KeyExclusive'
  BY DEF Quit, LetGo, Forget, world, locks, self, TypeOK, Command, KeyExclusive, HeldByPlace, HandlesReal, Holding
<1>6. FileExclusive'
  BY DEF Quit, LetGo, Forget, world, locks, self, TypeOK, Command, FileExclusive
<1>7. KeyFits'
  BY DEF Quit, LetGo, Forget, world, locks, self, TypeOK, Command, KeyFits, Key, Data, Target
<1>8. Secured'
  BY DEF Quit, LetGo, Forget, world, locks, self, TypeOK, Command, Secured, Expects, KeyFits
<1>9. WritersWrite'
  BY DEF Quit, LetGo, Forget, world, locks, self, TypeOK, Command, WritersWrite
<1>10. SceneKept'
  <2> SUFFICES ASSUME NEW q \in Proc, pc'[q] = "writing"
               PROVE  scene'[key'[q]] = IF cmd'[q] = "write" THEN SceneOf(q)' ELSE None
    BY DEF SceneKept
  <2>1. q # p /\ pc[q] = "writing"
    BY DEF Quit, Forget, TypeOK
  <2>2. key'[q] = key[q] /\ cmd'[q] = cmd[q] /\ SceneOf(q)' = SceneOf(q) /\ key[q] \in Key
    BY <2>1 DEF Quit, Forget, TypeOK, SceneOf, Through, KeyFits
  <2>3. scene[key[q]] = IF cmd[q] = "write" THEN SceneOf(q) ELSE None
    BY <2>1 DEF SceneKept
  <2>4. scene[key[q]] # None => scene[key[q]].by = q
    BY <2>3 DEF SceneOf
  <2> QED BY <2>1, <2>2, <2>3, <2>4 DEF Quit, Orphaned
<1> QED BY <1>1, <1>2, <1>3, <1>4, <1>5, <1>6, <1>7, <1>8, <1>9, <1>10

LEMMA EditKeeps == ASSUME IInv, Edit PROVE IInv'
<1> USE TargetAssumption DEF IInv, locks
<1>1. TypeOK'
  <2> SUFFICES ASSUME NEW a \in Name, NEW b \in Name,
                      Rename(a, b) \/ Link(a, b) \/ Unlink(a, b) \/ Replace(a, b)
               PROVE  TypeOK'
    BY DEF Edit
  <2>1. at' \in [Name -> File \cup {None}]
    BY DEF Rename, Link, Unlink, Replace, TypeOK
  <2>2. loopName' \in Name \cup {None} /\ via' \in [Proc -> Name \cup {None}]
    BY DEF Rename, Link, Unlink, Replace, Moved, TypeOK
  <2>3. edits' \in 0..MaxEdits
    BY DEF Edit, TypeOK
  <2> QED BY <2>1, <2>2, <2>3 DEF Edit, TypeOK
<1>2. LockFilesStay' /\ HandlesReal' /\ HeldByPlace' /\ KeyExclusive'
  BY DEF Edit, LockFilesStay, HandlesReal, HeldByPlace, KeyExclusive
<1>3. FileExclusive' /\ KeyFits' /\ Secured' /\ WritersWrite'
  BY DEF Edit, FileExclusive, KeyFits, Secured, Expects, WritersWrite
<1>4. SceneKept'
  BY DEF Edit, SceneKept, SceneOf, Through
<1> QED BY <1>1, <1>2, <1>3, <1>4

LEMMA InitHolds == Init => IInv
<1> SUFFICES ASSUME Init PROVE IInv
  OBVIOUS
<1>1. TypeOK
  BY TargetAssumption DEF Init, TypeOK, Target, Command
<1> QED
  BY <1>1, TargetAssumption DEF Init, IInv, LockFilesStay, HandlesReal, HeldByPlace, KeyExclusive,
       FileExclusive, KeyFits, Secured, Expects, WritersWrite, SceneKept, Holding, Key

LEMMA StutterKeeps == ASSUME IInv, UNCHANGED vars PROVE IInv'
BY DEF IInv, TypeOK, LockFilesStay, HandlesReal, HeldByPlace, KeyExclusive, FileExclusive,
       KeyFits, Secured, Expects, WritersWrite, SceneKept, SceneOf, Through, vars, world, locks, self

(* The strengthening is an invariant: lock files are never removed, so the *)
(* lock on a key's file is the lock on the key, and only its holder        *)
(* touches the scene there.                                                *)
THEOREM OwnershipInvariant == Spec => []IInv
<1>1. Init => IInv
  BY InitHolds
<1>2. IInv /\ [Next]_vars => IInv'
  <2> SUFFICES ASSUME IInv, [Next]_vars PROVE IInv'
    OBVIOUS
  <2>1. CASE UNCHANGED vars
    BY <2>1, StutterKeeps
  <2>2. CASE Edit
    BY <2>2, EditKeeps
  <2>3. ASSUME NEW p \in Proc, Step(p) PROVE IInv'
    BY <2>3, OpenKeeps, ResolveKeeps, OpenLockKeeps, TryLockKeeps, TakeDataKeeps, BeginKeeps,
       BeginPlainKeeps, BeginOnlineKeeps, AbandonKeeps, FinishKeeps, UndoneKeeps, CommitKeeps, QuitKeeps DEF Step
  <2> QED BY <2>1, <2>2, <2>3 DEF Next
<1> QED BY <1>1, <1>2, PTL DEF Spec

LEMMA OwnersExclude == IInv => DataExclusive
<1> SUFFICES ASSUME IInv, NEW p \in Proc, NEW q \in Proc,
                    pc[p] = "writing", pc[q] = "writing", fd[p] = fd[q],
                    ~Misled(p), ~Misled(q)
             PROVE  p = q
  BY DEF DataExclusive
<1>1. held[p] /\ held[q] /\ cmd[p] # "abandon" /\ cmd[q] # "abandon"
  BY DEF IInv, HeldByPlace, Holding, WritersWrite
<1>2. CASE fd[p] \in Disk
  <2>1. key[p] = key[q]
    BY <1>1, <1>2, TargetAssumption DEF IInv, KeyFits
  <2> QED BY <1>1, <2>1 DEF IInv, KeyExclusive
<1>3. CASE fd[p] \in File
  <2>1. ilock[p] = fd[p] /\ ilock[q] = fd[p]
    BY <1>1, <1>3 DEF IInv, TypeOK, Secured, Expects, Command, Misled
  <2>2. fd[p] # None
    BY <1>3, TargetAssumption DEF Data
  <2> QED BY <2>1, <2>2 DEF IInv, FileExclusive
<1> QED BY <1>1, <1>2, <1>3 DEF IInv, KeyFits

(* No two invocations write one file or disk at once, under any number of  *)
(* processes, names, disks and outside renames.                            *)
THEOREM WritersNeverMeet == Spec => []DataExclusive
BY OwnershipInvariant, OwnersExclude, PTL

(* The scene of a command that is writing stays its own until it lets go.  *)
THEOREM SceneStays == Spec => []SceneKept
<1>1. IInv => SceneKept
  BY DEF IInv
<1> QED BY <1>1, OwnershipInvariant, PTL

(* Every variable keeps to its type, for all values of the constants.      *)
THEOREM TypesHold == Spec => []TypeOK
<1>1. IInv => TypeOK
  BY DEF IInv
<1> QED BY <1>1, OwnershipInvariant, PTL
=============================================================================
