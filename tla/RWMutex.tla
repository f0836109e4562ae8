------------------------------ MODULE RWMutex ------------------------------
(***************************************************************************)
(* Go's sync.RWMutex as config.GlobalConfig uses it (field mu): readers    *)
(* share, a writer excludes everyone, and a writer that has called Lock    *)
(* keeps later readers out until it has come and gone.  A goroutine may    *)
(* ask for the read lock again while it holds it (a hook that calls a      *)
(* getter), so read holds are counted per goroutine.                       *)
(*                                                                         *)
(* Lock is two steps, Announce and then the wait for the readers to leave  *)
(* (Exclusive); Unlock lets in, at once, every reader that waited.         *)
(***************************************************************************)
EXTENDS Integers

CONSTANTS Proc,   \* the goroutines of the program
          NoProc  \* no goroutine

ASSUME NoProcAssumption == NoProc \notin Proc

VARIABLES announced, \* the goroutine inside Lock, NoProc if there is none
          holding,   \* how many times each goroutine holds the read lock
          waiting    \* the goroutines blocked in RLock

lockVars == <<announced, holding, waiting>>

LockTypeOK ==
  /\ announced \in Proc \union {NoProc}
  /\ holding \in [Proc -> Nat]
  /\ waiting \subseteq Proc

LockInit ==
  /\ announced = NoProc
  /\ holding = [p \in Proc |-> 0]
  /\ waiting = {}

(* The call RLock(): it returns at once, or it blocks behind a writer.     *)
(* RLock has returned when the caller is not waiting.                      *)
RLock(p) ==
  /\ p \notin waiting
  /\ IF announced = NoProc
     THEN holding' = [holding EXCEPT ![p] = @ + 1] /\ UNCHANGED waiting
     ELSE waiting' = waiting \union {p} /\ UNCHANGED holding
  /\ UNCHANGED announced

RUnlock(p) ==
  /\ p \notin waiting
  /\ holding[p] > 0
  /\ holding' = [holding EXCEPT ![p] = @ - 1]
  /\ UNCHANGED <<announced, waiting>>

(* The first half of Lock(): win the writers' mutex, stop new readers.     *)
Announce(p) ==
  /\ announced = NoProc
  /\ announced' = p
  /\ UNCHANGED <<holding, waiting>>

(* Lock() has returned: the readers that were inside have all left.        *)
Exclusive(p) ==
  /\ announced = p
  /\ \A q \in Proc : holding[q] = 0

(* Unlock() hands the read lock to every goroutine that waited for it.     *)
Unlock(p) ==
  /\ announced = p
  /\ announced' = NoProc
  /\ holding' = [q \in Proc |-> IF q \in waiting THEN holding[q] + 1
                                                 ELSE holding[q]]
  /\ waiting' = {}
============================================================================
