------------------------------ MODULE Library ------------------------------
(***************************************************************************)
(* The parts of the kernel's library that the theorems of LibraryProofs    *)
(* are about: CircularIntrusiveList and unique_ptr.  They share no state.  *)
(* The variables of IntrusiveCircularList are those that it declares.      *)
(***************************************************************************)
EXTENDS IntrusiveCircularList

CONSTANTS
  Pointer, Object, Array                      \* of UniquePtr

ASSUME LibraryAssumption == null \notin Object

VARIABLES
  exists, _object, form, raw, wrong           \* of UniquePtr

Unique == INSTANCE UniquePtr WITH nullptr <- null

\* See UniquePtr: no object is lost or deleted twice.
ObjectsHaveOneHolder == Unique!ObjectsHaveOneHolder
=============================================================================
