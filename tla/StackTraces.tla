----------------------------- MODULE StackTraces -----------------------------
(***************************************************************************)
(* GetStackTrace, which every platform implements in its way               *)
(* (stacktrace_*-inl.h): by following frame pointers with checks that they *)
(* make sense (x86, powerpc), with an unwinder that calls back (x86_64) or *)
(* is stepped (libunwind), or with backtrace of the C library (generic).   *)
(*                                                                         *)
(* A walk may be interrupted by another of the same thread: a signal, or   *)
(* memory that the unwinder maps and that a hook traces.                   *)
(***************************************************************************)
EXTENDS Integers, SequencesExt

CONSTANTS
  Kinds,        \* of implementations
  Stacks,       \* what is on the stack when a trace starts
  Depths,       \* of traces that are asked for
  Skips,        \* frames of the caller's to leave out
  WordSize,     \* of pointers
  MaxFrame,     \* larger frames are bogus (100000)
  kStackLength, \* frames that the generic version takes
  Bogus,        \* what is in memory that holds no return address
  MaxWalks      \* bound: walks that interrupt each other

\* A stack: where the frames are, inner first, the return address in each, and where
\* the last one points: nowhere, at a marker that points to itself, or astray.
StackAssumption ==
  /\ Kinds \subseteq {"x86", "powerpc", "x86_64", "libunwind", "generic"}
  /\ \A stack \in Stacks :
       Len(stack.frames) = Len(stack.callers) /\ Len(stack.frames) > 1

VARIABLES
  platform,  \* the implementation, and whether static initializers have run
  stack,     \* the stack of the thread
  walks,     \* calls of GetStackTrace that have not returned, inner last
  entered,   \* g_tl_entered
  done       \* the call that returned just now, if any
vars == <<platform, stack, walks, entered, done>>

Init ==
  /\ platform \in [kind : Kinds, ready_to_run : BOOLEAN]
  /\ platform.kind # "x86_64" => platform.ready_to_run
  /\ stack \in Stacks
  /\ walks = <<>> /\ entered = FALSE /\ done = {}

\* The module's static initializer.
StackTraceInit ==
  /\ ~platform.ready_to_run
  /\ platform' = [platform EXCEPT !.ready_to_run = TRUE]
  /\ done' = {} /\ UNCHANGED <<stack, walks, entered>>

Top == walks[Len(walks)]
WithTop(walk) == [walks EXCEPT ![Len(walks)] = walk]
Returned(walk) ==
  /\ walks' = Front(walks)
  /\ done' = {walk @@ [nested |-> Len(walks) > 1]}

-----------------------------------------------------------------------------
(* Frames, as each implementation finds them *)

FrameAt(sp) == CHOOSE i \in DOMAIN stack.frames : stack.frames[i] = sp
Mapped(sp) == sp \in ToSet(stack.frames) \cup {stack.marker}

\* *sp
Next_(sp) ==
  IF sp = stack.marker THEN sp
  ELSE IF FrameAt(sp) < Len(stack.frames) THEN stack.frames[FrameAt(sp) + 1]
  ELSE stack.end

\* Where the return address is: on powerpc, in the frame of the caller.
ReturnAddress(sp) ==
  IF platform.kind = "x86"
  THEN IF sp = stack.marker THEN 0 ELSE stack.callers[FrameAt(sp)]
  ELSE IF sp = stack.marker THEN Last(stack.callers)
  ELSE IF FrameAt(sp) = 1 THEN Bogus ELSE stack.callers[FrameAt(sp) - 1]

\* Faulty variant: a frame may be its own caller.
NextStackFrameSame(old_sp) ==
  LET new_sp == Next_(old_sp)
  IN  IF new_sp < old_sp \/ new_sp - old_sp > MaxFrame \/ new_sp % WordSize # 0
      THEN 0 ELSE new_sp
\* NextStackFrame<true>; the lax rules are never used.
NextStackFrame(old_sp) ==
  LET new_sp == Next_(old_sp)
  IN  IF new_sp <= old_sp \/ new_sp - old_sp > MaxFrame \/ new_sp % WordSize # 0
      THEN 0 ELSE new_sp

\* The unwinders know the frames, their own first.
Unwound == <<Bogus>> \o stack.callers

-----------------------------------------------------------------------------
(* One frame *)

Add(walk, ip) ==
  IF walk.skip > 0 THEN [walk EXCEPT !.skip = @ - 1]
  ELSE [walk EXCEPT !.result = Append(@, ip)]

\* All but x86 come by GetStackTrace itself first.
Skipped(skip) == IF platform.kind = "x86" THEN skip ELSE skip + 1

Refused ==
  \/ platform.kind = "libunwind" /\ entered
  \/ platform.kind = "x86_64" /\ ~platform.ready_to_run

GetStackTrace(max_depth, skip) ==
  /\ Len(walks) < MaxWalks
  /\ \E walk \in {[max_depth |-> max_depth, asked |-> skip, skip |-> Skipped(skip),
                   sp |-> stack.frames[1], at |-> 1, result |-> <<>>, faulted |-> FALSE]} :
       IF Refused
       THEN /\ done' = {walk @@ [nested |-> walks # <<>>, refused |-> TRUE]}
            /\ UNCHANGED <<walks, entered>>
       ELSE /\ walks' = Append(walks, walk @@ [refused |-> FALSE])
            /\ entered' = (platform.kind = "libunwind")
            /\ done' = {}
  /\ UNCHANGED <<platform, stack>>

\* x86 and powerpc: the loop.  On x86 a frame without a return address is the last.
More(walk) ==
  /\ walk.sp # 0 /\ Len(walk.result) < walk.max_depth
  /\ ~(platform.kind = "x86" /\ Mapped(walk.sp) /\ ReturnAddress(walk.sp) = 0)
FollowFrame ==
  /\ walks # <<>> /\ platform.kind \in {"x86", "powerpc"}
  /\ \/ /\ More(Top) /\ Mapped(Top.sp)
        /\ walks' = WithTop([Add(Top, ReturnAddress(Top.sp))
                              EXCEPT !.sp = NextStackFrame(Top.sp)])
        /\ done' = {}
     \/ More(Top) /\ ~Mapped(Top.sp) /\ Returned([Top EXCEPT !.faulted = TRUE])
     \/ ~More(Top) /\ Returned(Top)
  /\ UNCHANGED <<platform, stack, entered>>

\* x86_64: GetOneFrame ends the walk when there is no room for another frame.
GetOneFrame ==
  /\ walks # <<>> /\ platform.kind = "x86_64"
  /\ \E walk \in {[Add(Top, Unwound[Top.at]) EXCEPT !.at = @ + 1]} :
       IF Len(walk.result) = walk.max_depth \/ walk.at > Len(Unwound)
       THEN Returned(walk)
       ELSE walks' = WithTop(walk) /\ done' = {}
  /\ UNCHANGED <<platform, stack, entered>>

\* libunwind: unw_get_reg and unw_step.
StepCursor ==
  /\ walks # <<>> /\ platform.kind = "libunwind"
  /\ IF Len(Top.result) < Top.max_depth /\ Top.at <= Len(Unwound)
     THEN /\ walks' = WithTop([Add(Top, Unwound[Top.at]) EXCEPT !.at = @ + 1])
          /\ done' = {} /\ UNCHANGED entered
     ELSE Returned(Top) /\ entered' = FALSE
  /\ UNCHANGED <<platform, stack>>

\* generic: all frames at once.
Least(S) == CHOOSE x \in S : \A y \in S : x <= y
CopyFrames ==
  /\ walks # <<>> /\ platform.kind = "generic"
  /\ LET size == Least({Len(Unwound), kStackLength})
         left == IF size - Top.skip < 0 THEN 0 ELSE size - Top.skip
         count == Least({left, Top.max_depth})
     IN  Returned([Top EXCEPT !.result = [i \in 1 .. count |-> Unwound[i + Top.skip]]])
  /\ UNCHANGED <<platform, stack, entered>>

Next ==
  \/ StackTraceInit
  \/ \E max_depth \in Depths, skip \in Skips : GetStackTrace(max_depth, skip)
  \/ FollowFrame \/ GetOneFrame \/ StepCursor \/ CopyFrames

-----------------------------------------------------------------------------
(* Properties *)

\* The callers of GetStackTrace that an implementation can find.
Callers ==
  CASE platform.kind = "powerpc" /\ stack.end # stack.marker -> Front(stack.callers)
    [] platform.kind = "generic" ->
         SubSeq(stack.callers, 1, Least({Len(stack.callers), kStackLength - 1}))
    [] OTHER -> stack.callers
Part(s, from, to) ==
  [i \in 1 .. IF Least({to, Len(s)}) < from THEN 0 ELSE Least({to, Len(s)}) - from + 1
     |-> s[from + i - 1]]

\* stacktrace.h:53: every implementation gives the callers of the function that
\* asks, skip_count of them left out, as many as there is room for, whatever the
\* last frame points at and whoever interrupts it; only a walk inside a walk of
\* libunwind, or before static initialization, gives none.
TraceExact ==
  \A walk \in done :
    IF walk.refused
    THEN walk.result = <<>> /\ (platform.kind = "libunwind" => walk.nested)
    ELSE ~walk.faulted =>
           walk.result = Part(Callers, walk.asked + 1, walk.asked + walk.max_depth)

\* stacktrace_x86-inl.h:48: frame pointers are followed upwards only, so that a walk
\* ends on any stack, and memory that is not mapped is read only if the pointer to
\* it passes every check.
WalksEnd ==
  /\ \A walk \in ToSet(walks) : walk.sp # 0 => walk.sp >= stack.frames[1]
  /\ \A walk \in ToSet(walks) \cup done :
       /\ Len(walk.result) <= walk.max_depth
       /\ Len(walk.result) <= Len(stack.frames)
       /\ walk.faulted =>
            /\ stack.end % WordSize = 0
            /\ stack.end \in Last(stack.frames) + 1 .. Last(stack.frames) + MaxFrame

TracesRight == TraceExact /\ WalksEnd
=============================================================================
