------------------------------ MODULE UniquePtr ------------------------------
(***************************************************************************)
(* lib::unique_ptr and make_unique (src/kernel/libkernelcxx/include/       *)
(* memory.hpp), for single objects and for arrays.                         *)
(*                                                                         *)
(* The user is a piece of kernel code with a few unique_ptr variables, of  *)
(* which each one exists from a constructor to the destructor, and with    *)
(* the raw pointers that release() gave it or that it will give to         *)
(* reset(): the scheduler's instance, the PIT's divider and the buffer of  *)
(* a string are made, moved and assigned so.                               *)
(***************************************************************************)
EXTENDS Naturals

CONSTANTS
  Pointer,     \* unique_ptr variables
  Object,      \* memory for objects
  Array,       \* the pointers to arrays and the memory used for arrays
  nullptr      \* no object

VARIABLES
  exists,      \* the variables between construction and destruction
  _object,     \* as in the code
  form,        \* form[o]: how o was created, or "free"
  raw,         \* the objects that the user holds raw pointers to
  wrong        \* an object was deleted twice or by the wrong operator

vars == <<exists, _object, form, raw, wrong>>

Form(x) == IF x \in Array THEN "new[]" ELSE "new"

Init ==
  /\ exists = {}
  /\ _object = [p \in Pointer |-> nullptr]
  /\ form = [o \in Object |-> "free"]
  /\ raw = {}
  /\ wrong = FALSE

\* get_deleter()(old), default_delete<T> or default_delete<T[]> after the
\* type of the pointer p; not called for a null pointer.
Delete(p, old) ==
  IF old = nullptr
  THEN UNCHANGED <<form, wrong>>
  ELSE /\ form' = [form EXCEPT ![old] = "free"]
       /\ wrong' = (wrong \/ form[old] # Form(p))

\* The user creates an object and holds a raw pointer to it.
New(o) ==
  /\ form[o] = "free"
  /\ form' = [form EXCEPT ![o] = Form(o)]
  /\ raw' = raw \cup {o}
  /\ UNCHANGED <<exists, _object, wrong>>

\* unique_ptr(), unique_ptr(nullptr)
Construct(p) ==
  /\ p \notin exists
  /\ exists' = exists \cup {p}
  /\ _object' = [_object EXCEPT ![p] = nullptr]
  /\ UNCHANGED <<form, raw, wrong>>

\* unique_ptr(o) of a raw pointer.
ConstructFrom(p, o) ==
  /\ p \notin exists
  /\ exists' = exists \cup {p}
  /\ _object' = [_object EXCEPT ![p] = o]
  /\ raw' = raw \ {o}
  /\ UNCHANGED <<form, wrong>>

\* make_unique<T>(args), make_unique<T[]>(size): by `new` or by `new[]`.
make_unique(p, o) ==
  /\ p \notin exists
  /\ form[o] = "free"
  /\ form' = [form EXCEPT ![o] = Form(p)]
  /\ exists' = exists \cup {p}
  /\ _object' = [_object EXCEPT ![p] = o]
  /\ UNCHANGED <<raw, wrong>>

\* unique_ptr(unique_ptr&& other): _object is null when it is swapped.
MoveConstruct(p, other) ==
  /\ p \notin exists
  /\ other \in exists
  /\ exists' = exists \cup {p}
  /\ _object' = [_object EXCEPT ![p] = _object[other], ![other] = nullptr]
  /\ UNCHANGED <<form, raw, wrong>>

\* ~unique_ptr()
Destroy(p) ==
  /\ p \in exists
  /\ exists' = exists \ {p}
  /\ Delete(p, _object[p])
  /\ UNCHANGED <<_object, raw>>

\* Mutant of MoveAssign: the other pointer is read, not released.
MoveAssignGet(p, other) ==
  /\ {p, other} \subseteq exists
  /\ _object' = [_object EXCEPT ![p] = _object[other]]
  /\ Delete(p, _object[p])
  /\ UNCHANGED <<exists, raw>>

\* operator=(unique_ptr&& other): reset(other.release()), also for p = other.
MoveAssign(p, other) ==
  LET released == [_object EXCEPT ![other] = nullptr]
  IN  /\ {p, other} \subseteq exists
      /\ _object' = [released EXCEPT ![p] = _object[other]]
      /\ Delete(p, released[p])
      /\ UNCHANGED <<exists, raw>>

\* reset(o): the new pointer is stored before the old object is deleted.
reset(p, o) ==
  /\ p \in exists
  /\ _object' = [_object EXCEPT ![p] = o]
  /\ raw' = raw \ {o}
  /\ Delete(p, _object[p])
  /\ UNCHANGED exists

\* release()
release(p) ==
  /\ p \in exists
  /\ _object[p] # nullptr
  /\ raw' = raw \cup {_object[p]}
  /\ _object' = [_object EXCEPT ![p] = nullptr]
  /\ UNCHANGED <<exists, form, wrong>>

\* A pointer takes what its type allows.
Next ==
  \/ \E o \in Object : New(o)
  \/ \E p \in Pointer :
       \/ Construct(p)
       \/ Destroy(p)
       \/ release(p)
       \/ reset(p, nullptr)
       \/ \E o \in {o \in raw : Form(o) = Form(p)} :
            ConstructFrom(p, o) \/ reset(p, o)
       \/ \E o \in {o \in Object : Form(o) = Form(p)} : make_unique(p, o)
       \/ \E other \in {q \in Pointer : Form(q) = Form(p)} :
            (p # other /\ MoveConstruct(p, other)) \/ MoveAssign(p, other)

Spec == Init /\ [][Next]_vars

-----------------------------------------------------------------------------
(* Properties.                                                             *)

\* Every object that exists has exactly one holder, a unique_ptr or the user,
\* whatever is moved, assigned (to itself too), reset and released: none is
\* lost, none is deleted twice or by the operator of the other form
\* (memory.hpp:92-142, 189-239).
ObjectsHaveOneHolder ==
  /\ ~wrong
  /\ \A o \in Object :
       LET holders == {p \in exists : _object[p] = o}
       IN  CASE form[o] = "free"                -> holders = {} /\ o \notin raw
             [] form[o] # "free" /\ o \in raw   -> holders = {}
             [] OTHER                           -> \E p \in exists : holders = {p}
=============================================================================
