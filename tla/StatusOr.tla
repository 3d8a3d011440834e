------------------------------- MODULE StatusOr -------------------------------
(***************************************************************************)
(* The results that functions return: a status and a value.  There are two *)
(* classes of them: that of the protocol keeps its value behind a pointer  *)
(* (util/statusor.h), that of the lattice library in an absl::optional     *)
(* (statusor.h).  Two objects are made, copied, moved and asked for their  *)
(* values in any order, and ASSIGN_OR_RETURN passes the result of one      *)
(* function on as another's.                                               *)
(*                                                                         *)
(* Values are numbers: Null is a pointer that holds no object, Absent says *)
(* that value_ itself is null, or empty.                                   *)
(***************************************************************************)
EXTENDS Integers, Sequences

CONSTANTS
  Libraries,  \* "util" or "rlwe": which class
  Objects,    \* the StatusOr objects of the program
  Kinds,      \* of T: "value", "pointer" (T*) or "unique" (std::unique_ptr)
  Codes,      \* of status; "kOk" is one
  Messages,   \* sequences of notes
  Values,     \* what objects may hold
  MaxOps      \* bound: operations

Null == 0
Absent == -1
StatusOrAssumption ==
  /\ Libraries \subseteq {"util", "rlwe"}
  /\ Kinds \subseteq {"value", "pointer", "unique"}
  /\ {"kOk", "kInternal", "kUnknown"} \subseteq Codes
  /\ Null \notin Values /\ Absent \notin Values

VARIABLES
  kind,    \* [library, type]: the class, and T
  debug,   \* whether LOG(DFATAL) ends the program
  object,  \* the objects
  meant,   \* what the program put there: an error, a value, or what a move left
  process, \* whether the program runs, and what it did that ended it
  ops
vars == <<kind, debug, object, meant, process, ops>>

-----------------------------------------------------------------------------
(* Status *)

\* Status(error, error_message): no message says that all is well.
Status(code, message) == [code |-> code, message |-> IF code = "kOk" THEN <<>> ELSE message]
OK == Status("kOk", <<>>)
Ok(status) == status.code = "kOk"
Annotate(status, note) ==
  IF Ok(status) \/ note = <<>> THEN status ELSE Status(status.code, status.message \o note)
Invalid == Status("kInternal", <<"invalid argument">>)

\* "Status accessed after move."
MovedStatus == Status("kInternal", <<"moved">>)

\* Errors: anything but OK.
Errors == {Status(code, message) : code \in Codes \ {"kOk"}, message \in Messages}

-----------------------------------------------------------------------------
(* Objects *)

Object(status, value) == [status |-> status, value |-> value]
Meant(what, status, value) == [what |-> what, status |-> status, value |-> value]
Runs == [how |-> "runs", of |-> ""]

Init ==
  /\ kind \in [library : Libraries, type : Kinds] /\ debug \in BOOLEAN
  /\ object = [x \in Objects |-> Object(Status("kUnknown", <<>>), Absent)]
  /\ meant = [x \in Objects |-> Meant("error", Status("kUnknown", <<>>), Absent)]
  /\ process = Runs /\ ops = 0

Set(x, new, meaning) ==
  object' = [object EXCEPT ![x] = new] /\ meant' = [meant EXCEPT ![x] = meaning]
Running ==
  process = Runs /\ ops < MaxOps /\ ops' = ops + 1 /\ UNCHANGED <<kind, debug>>
Ended(how, of) == process' = [how |-> how, of |-> of] /\ UNCHANGED <<object, meant>>

\* StatusOr(const Status&): OK is no result.
FromStatus(x, status) ==
  /\ Running
  /\ IF ~Ok(status)
     THEN Set(x, Object(status, Absent), Meant("error", status, Absent)) /\ process' = Runs
     ELSE \/ debug /\ Ended("invalid argument", x)
          \/ /\ ~debug /\ process' = Runs
             /\ Set(x, Object(Invalid, Absent), Meant("error", Invalid, Absent))

\* Faulty variant: a null pointer is a value.
IsValueNullNever(value) == FALSE
\* Specialize<T>: only plain pointers are looked at.
IsValueNull(value) == kind.type = "pointer" /\ value = Null

\* StatusOr(const T&), StatusOr(T&&)
FromValue(x, value) ==
  /\ Running
  /\ IF ~IsValueNull(value)
     THEN Set(x, Object(OK, value), Meant("value", OK, value)) /\ process' = Runs
     ELSE \/ debug /\ Ended("invalid argument", x)
          \/ /\ ~debug /\ process' = Runs
             /\ Set(x, Object(Invalid, value), Meant("null", Invalid, value))

\* The copy constructor and assignment: *other.value_, whether there is one or not.
Copy(x, other) ==
  /\ Running /\ kind.type # "unique" /\ kind.library = "util"
  /\ IF object[other].value = Absent THEN Ended("null dereferenced", other)
     ELSE Set(x, object[other], meant[other]) /\ process' = Runs

\* The copy constructor; the assignment does not compile.
CopyOptional(x, other) ==
  /\ Running /\ kind.type # "unique" /\ kind.library = "rlwe" /\ x # other
  /\ Set(x, object[other], meant[other]) /\ process' = Runs

\* What is left of a value that is moved.
Taken(value) == IF kind.type = "unique" /\ value # Absent THEN Null ELSE value

\* What a move leaves.  Status has no move operations and unique_ptr gives its
\* pointer; absl::Status says that it was moved from, and absl::optional is not empty.
MovedFrom(other) ==
  IF kind.library = "util" THEN [object[other] EXCEPT !.value = Absent]
  ELSE Object(MovedStatus, Taken(object[other].value))
Left(other) == Meant("moved", MovedFrom(other).status, Absent)
StaysMeant(other) == kind.library = "util" /\ meant[other].what = "error"
Move(x, other) ==
  /\ Running /\ process' = Runs
  /\ IF x = other THEN UNCHANGED <<object, meant>>
     ELSE /\ object' = [object EXCEPT ![x] = object[other], ![other] = MovedFrom(other)]
          /\ meant' = [meant EXCEPT ![x] = meant[other],
                         ![other] = IF StaysMeant(other) THEN @
                                    ELSE Left(other)]

\* value() of an lvalue.
Value(x) ==
  /\ Running
  /\ IF object[x].value = Absent THEN Ended("crash", x)
     ELSE process' = Runs /\ UNCHANGED <<object, meant>>

\* std::move(x).value(): what is left is an object that was moved from.
TakeValue(x) ==
  /\ Running
  /\ IF object[x].value = Absent THEN Ended("crash", x)
     ELSE /\ object' = [object EXCEPT ![x].value = Taken(@)]
          /\ meant' = [meant EXCEPT ![x].value = Taken(@)]
          /\ process' = Runs

\* ASSIGN_OR_RETURN(value, callee()); return value;  with the callee's result in y and
\* the caller's in x, and an error annotated on its way, or not.
AssignOrReturn(x, y, note) ==
  /\ Running /\ x # y
  /\ kind.library = "rlwe" => note = <<>>
  /\ IF ~Ok(object[y].status)
     THEN LET status == Annotate(object[y].status, note)
          IN  /\ object' = [object EXCEPT ![x] = Object(status, Absent), ![y] = MovedFrom(y)]
              /\ meant' = [meant EXCEPT
                   ![x] = Meant("error", Annotate(meant[y].status, note), Absent),
                   ![y] = IF StaysMeant(y) THEN @ ELSE Left(y)]
              /\ process' = Runs
     ELSE IF object[y].value = Absent THEN Ended("crash", y)
     ELSE /\ object' = [object EXCEPT ![x] = Object(OK, object[y].value), ![y] = MovedFrom(y)]
          /\ meant' = [meant EXCEPT ![x] = Meant("value", OK, meant[y].value),
                                    ![y] = Left(y)]
          /\ process' = Runs

Pointers == IF kind.type = "value" THEN Values ELSE Values \cup {Null}
Next ==
  \/ \E x \in Objects, status \in Errors \cup {OK} : FromStatus(x, status)
  \/ \E x \in Objects, value \in Pointers : FromValue(x, value)
  \/ \E x, other \in Objects : Copy(x, other) \/ CopyOptional(x, other) \/ Move(x, other)
  \/ \E x \in Objects : Value(x) \/ TakeValue(x)
  \/ \E x, y \in Objects, note \in Messages : AssignOrReturn(x, y, note)

Spec == Init /\ [][Next]_vars

-----------------------------------------------------------------------------
(* Properties *)

\* util/statusor.h:81, statusor.h:28: an object that was given a value has it and is
\* ok, one that was given an error has that error and no value, through copies, moves
\* and functions that pass it on; one of the lattice library that was moved from says
\* so.
StandsForIt ==
  \A x \in Objects :
    /\ meant[x].what = "value" => object[x] = Object(OK, meant[x].value)
    /\ meant[x].what = "error" =>
         object[x] = Object(meant[x].status, Absent) /\ ~Ok(object[x].status)
    /\ meant[x].what = "null" => ~Ok(object[x].status)
    /\ kind.type = "pointer" /\ Ok(object[x].status) => object[x].value # Null
    /\ kind.library = "rlwe" => (Ok(object[x].status) <=> meant[x].what = "value")

\* util/statusor.h:132, statusor.h:80: the program ends in value() only if the object
\* it asked has an error or, in the protocol's class, was moved from; in a
\* constructor only in debug builds; and a null pointer is dereferenced only by a
\* copy of such an object of the protocol's.
EndsForAReason ==
  /\ process.how \in {"crash", "null dereferenced"} =>
       \/ meant[process.of].what = "error"
       \/ /\ meant[process.of].what = "moved"
          /\ kind.library = "util" \/ object[process.of].value = Absent
  /\ process.how = "null dereferenced" => kind.library = "util"
  /\ process.how = "invalid argument" => debug

ResultsStand == StandsForIt /\ EndsForAReason

-----------------------------------------------------------------------------
(* The inductive invariant *)

\* Statuses are never changed but with what they mean; there is a value, if only a null
\* one, until it is moved away, and then the protocol's class has none.
Kept(o, m) ==
  /\ o = Object(o.status, o.value) /\ m = Meant(m.what, m.status, m.value)
  /\ m.status = o.status /\ m.what \in {"value", "error", "null", "moved"}
  /\ m.what \in {"value", "null"} => o.value # Absent
  /\ m.what = "moved" /\ kind.library = "util" => o.value = Absent

\* util/statusor.h, statusor.h: an object of the class of one of the libraries keeps what
\* it was given, and stands for it.
ResultsInv ==
  /\ kind.library \in {"util", "rlwe"}
  /\ DOMAIN object = Objects /\ DOMAIN meant = Objects
  /\ \A x \in Objects : Kept(object[x], meant[x])
  /\ ResultsStand
=============================================================================
