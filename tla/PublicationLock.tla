--------------------------- MODULE PublicationLock ---------------------------
(***************************************************************************)
(* cuexis::tools::PublicationLock: an exclusive, non-blocking flock on a   *)
(* lock file of the directory that a publication writes to.  The kernel    *)
(* gives it up when its holder exits.  A writer takes the locks it wants   *)
(* in the order of their paths, and is turned away by the first held one.  *)
(***************************************************************************)
EXTENDS Integers, SequencesExt

CONSTANTS
    Writers, \* threads of one or several tools
    Locks,   \* lock files, a set of numbers in the order of their paths
    None

ASSUME LockAssumption ==
    /\ Locks \subseteq Nat
    /\ None \notin Writers

VARIABLE holder \* the writer whose descriptor holds each lock file

LockTypeOK == holder \in [Locks -> Writers \cup {None}]
LockInit == holder = [l \in Locks |-> None]

(* acquireAll takes the wanted locks each once, the first in order first.  *)
FirstOf(wanted) == CHOOSE l \in wanted : \A m \in wanted : l <= m

(* A bug: the lock of a file that another writer holds is granted too.     *)
AcquireShared(w, l) == holder' = [holder EXCEPT ![l] = w]

Acquire(w, l) == holder[l] = None /\ holder' = [holder EXCEPT ![l] = w]
Busy(w, l) == holder[l] # None /\ UNCHANGED holder

(* ~PublicationLock, and the exit of the process.                          *)
ReleaseAll(w) ==
    holder' = [l \in Locks |-> IF holder[l] = w THEN None ELSE holder[l]]

KernelReleasesAll == holder' = [l \in Locks |-> None]
==============================================================================
