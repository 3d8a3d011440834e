------------------------------ MODULE MutexLocks ------------------------------
(***************************************************************************)
(* A mutex and the objects that hold it: glog/src/base/mutex.h, in each of *)
(* the ways it is built.  Without threads it is a counter that assertions  *)
(* change, so that an optimised build changes nothing; on Windows and with *)
(* pthread mutexes a reader locks like a writer, and on Windows a thread   *)
(* may lock again what it holds; with pthread_rwlock readers share, and a  *)
(* thread that would wait for itself may be told so, and aborts.  Before   *)
(* the constructor has run, while there is one thread, all operations do   *)
(* nothing, unless there are no threads at all.                            *)
(***************************************************************************)
EXTENDS Integers, Sequences, FiniteSets

CONSTANTS
  Threads,
  Main,        \* the thread that runs constructors
  Builds,      \* some of NO_THREADS, NDEBUG (without threads), CRITICAL_SECTION,
               \* RWLOCK and PTHREAD
  MaxNested,   \* locks that one thread has at a time
  MaxLocks     \* locks that are ever taken

MutexAssumption ==
  /\ Main \in Threads /\ MaxNested \in Nat \ {0} /\ MaxLocks \in Nat
  /\ Builds \subseteq {"NO_THREADS", "NDEBUG", "CRITICAL_SECTION", "RWLOCK", "PTHREAD"}

VARIABLES
  mutex,     \* the build, whether it was constructed (is_safe_), how often it is held,
             \* by a writer if negative, and whether an operation has failed
  scopes,    \* of each thread, the lock objects it is in the scope of, innermost last
  taken      \* locks so far

mutexVars == <<mutex, scopes, taken>>

SingleThreaded(build) == build \in {"NO_THREADS", "NDEBUG"}

Init ==
  /\ \E b \in Builds :
       mutex = [build |-> b, is_safe |-> FALSE, count |-> 0, failed |-> FALSE]
  /\ scopes = [t \in Threads |-> <<>>]
  /\ taken = 0

Counts == mutex.build = "NO_THREADS" \/ (mutex.is_safe /\ mutex.build # "NDEBUG")

\* ReaderLock is Lock where there are no locks to share.
Mode(mode) ==
  IF mutex.build \in {"CRITICAL_SECTION", "PTHREAD"} THEN "writer" ELSE mode

\* That t itself holds it, in an object that has locked it.
Holds(t) == \E i \in DOMAIN scopes[t] : scopes[t][i].counted

\* Faulty variant: a writer does not look for readers.
FreeForAny(t, mode) == mutex.count >= 0
FreeFor(t, mode) ==
  \/ mutex.count = 0
  \/ mode = "reader" /\ mutex.count > 0
  \/ mutex.build = "CRITICAL_SECTION" /\ Holds(t)

\* Who may be running: one thread until main has started.
Runs(t) ==
  /\ ~mutex.failed
  /\ t = Main \/ (mutex.is_safe /\ ~SingleThreaded(mutex.build))

\* A lock is taken, or the operation does nothing.
Enter(t, mode) ==
  /\ mutex' = IF Counts THEN [mutex EXCEPT !.count = IF mode = "reader" THEN @ + 1 ELSE @ - 1]
              ELSE mutex
  /\ scopes' = [scopes EXCEPT ![t] = Append(@, [mode |-> mode, counted |-> Counts])]

Asks(t) ==
  /\ Runs(t) /\ taken < MaxLocks /\ Len(scopes[t]) < MaxNested
  /\ taken' = taken + 1

\* Lock or ReaderLock by the constructor of a lock object.
LockObject(t, mode) ==
  /\ Asks(t) /\ (~Counts \/ FreeFor(t, Mode(mode)))
  /\ Enter(t, Mode(mode))

\* Without threads the assertion is that nobody has to wait; pthread_rwlock may see
\* that a thread would wait for itself.
LockFails(t, mode) ==
  /\ Asks(t) /\ Counts /\ ~FreeFor(t, Mode(mode))
  /\ mutex.build = "NO_THREADS" \/ (mutex.build = "RWLOCK" /\ Holds(t))
  /\ mutex' = [mutex EXCEPT !.failed = TRUE]
  /\ UNCHANGED scopes

\* TryLock, with a lock that is released at the end of the scope.
TryLock(t) ==
  /\ Asks(t)
  /\ IF Counts /\ ~FreeFor(t, "writer") THEN UNCHANGED <<mutex, scopes>>
     ELSE Enter(t, "writer")

\* Unlock or ReaderUnlock by its destructor.
EndOfScope(t) ==
  LET top == scopes[t][Len(scopes[t])]
      fits == IF top.mode = "reader" THEN mutex.count > 0 ELSE mutex.count < 0
  IN /\ ~mutex.failed /\ scopes[t] # <<>>
     /\ scopes' = [scopes EXCEPT ![t] = SubSeq(@, 1, Len(@) - 1)]
     /\ mutex' = IF ~Counts THEN mutex
                 ELSE IF ~fits THEN [mutex EXCEPT !.failed = TRUE]
                 ELSE [mutex EXCEPT !.count = IF top.mode = "reader" THEN @ - 1 ELSE @ + 1]
     /\ UNCHANGED taken

\* Mutex::Mutex.  That a global constructor leaves a lock to another one is ruled out.
Construct ==
  /\ ~mutex.is_safe /\ ~mutex.failed /\ \A t \in Threads : scopes[t] = <<>>
  /\ mutex' = [mutex EXCEPT !.is_safe = TRUE, !.count = 0]
  /\ UNCHANGED <<scopes, taken>>

Next ==
  \/ Construct
  \/ \E t \in Threads :
       \/ TryLock(t) \/ EndOfScope(t)
       \/ \E mode \in {"reader", "writer"} : LockObject(t, mode) \/ LockFails(t, mode)

Spec == Init /\ [][Next]_mutexVars

-----------------------------------------------------------------------------
(* Properties *)

Holders(mode) ==
  {p \in Threads \X (1 .. MaxNested) :
     p[2] \in DOMAIN scopes[p[1]] /\ scopes[p[1]][p[2]].counted /\ scopes[p[1]][p[2]].mode = mode}

\* The mutex knows how often it is held, and is free when all scopes have ended; a
\* writer is alone, and holds it once unless on Windows.
HeldRight ==
  ~mutex.failed /\ Counts =>
    mutex.count = IF Holders("writer") # {} THEN -Cardinality(Holders("writer"))
                  ELSE Cardinality(Holders("reader"))
WriterAlone ==
  \A p, q \in Holders("writer") \cup Holders("reader") :
    p # q /\ p \in Holders("writer") =>
      p[1] = q[1] /\ mutex.build = "CRITICAL_SECTION"

\* Nothing is released that was not taken, across the constructor either: what fails
\* is a lock that would have to wait for its own thread.
FailsByNesting == mutex.failed => \E t \in Threads : Holds(t) /\ mutex.count # 0

LocksRight == HeldRight /\ WriterAlone /\ FailsByNesting

-----------------------------------------------------------------------------
(* The inductive invariant                                                   *)

Lock == [mode : {"reader", "writer"}, counted : BOOLEAN]

TypeOK ==
  /\ mutex \in [build : Builds, is_safe : BOOLEAN, count : Int, failed : BOOLEAN]
  /\ scopes \in [Threads -> Seq(Lock)]
  /\ \A t \in Threads : Len(scopes[t]) <= MaxNested
  /\ taken \in Nat

\* A scope ends with the operation that its lock began with: both count, or both
\* came before the constructor, or both do nothing.
CountedAlike == \A t \in Threads : \A i \in DOMAIN scopes[t] : (scopes[t][i].counted <=> Counts)

\* Where readers lock like writers no lock is a reader's.
ModesRight ==
  \A t \in Threads : \A i \in DOMAIN scopes[t] : scopes[t][i].mode = Mode(scopes[t][i].mode)

FiniteHolders == IsFiniteSet(Holders("reader")) /\ IsFiniteSet(Holders("writer"))

MutexInv == TypeOK /\ CountedAlike /\ ModesRight /\ FiniteHolders /\ LocksRight
=============================================================================
