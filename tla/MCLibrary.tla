----------------------------- MODULE MCLibrary -----------------------------
(***************************************************************************)
(* Model of the kernel's library for TLC: linked structures, smart         *)
(* pointers, kmalloc, the output stream and the backtrace.                 *)
(* They share no state: the initial state chooses the one that is used.    *)
(* Library, LinkedLists and Mallocator hold the parts that have theorems.  *)
(***************************************************************************)
EXTENDS Integers, Library, LinkedLists, Mallocator

CONSTANTS
  Numbers, Strings, Registers, Widths, Fills, Lengths,   \* of OutputStream
  StackSize, TMP                             \* of Backtrace

VARIABLES
  which,                                                     \* what is used
  fmt, memory, _buf, _last, text, number, page,
  callers_ebp, inside_code, frame, returned

\* Zero, both ends of a type, and its numbers of few and of many digits.
MCNumbers ==
  {[value |-> v, bits |-> 8] : v \in {-128, -1, 0, 10, 255}}
    \cup {[value |-> v, bits |-> 16] : v \in {-32768, 4095}}

MCStrings == {<<97, 98>>}

Stream == INSTANCE OutputStream

Trace == INSTANCE Backtrace

FreeVars == <<order_, disable_squashing_, list_, free_next, items, free_ret, panicked>>
ForwardVars == <<fwd_next, value_, live, call, removed>>
UniqueVars == <<exists, _object, form, raw, wrong>>
StreamVars == <<fmt, memory, _buf, _last, text, number, page>>
TraceVars == <<callers_ebp, inside_code, frame, returned>>

LibraryVars ==
  <<which, vars, FreeVars, ForwardVars, UniqueVars, StreamVars, TraceVars, heap_vars>>

LibraryInit ==
  /\ which \in {"CircularIntrusiveList", "FreeList", "forward_list", "unique_ptr",
                "ostream", "backtrace", "kmalloc"}
  /\ Init
  /\ Free!Init
  /\ which # "FreeList" => order_ = MaxOrder
  /\ Forward!Init
  /\ Unique!Init
  /\ Stream!Init
  /\ which # "ostream" => _last = 0
  /\ HeapInit
  /\ Trace!Init
  /\ which # "backtrace" => ~\E f \in DOMAIN inside_code : inside_code[f]
  /\ which # "backtrace" => \A f \in DOMAIN callers_ebp : callers_ebp[f] = 0

TraceStep ==
  /\ which = "backtrace"
  /\ Trace!Next
  /\ UNCHANGED <<which, vars, FreeVars, ForwardVars, UniqueVars, StreamVars,
                 heap_vars>>

\* A backtrace is over at some time; nothing else need ever be called.
LibraryNext ==
  \/ /\ which = "CircularIntrusiveList"
     /\ Next
     /\ UNCHANGED <<which, FreeVars, ForwardVars, UniqueVars, StreamVars, TraceVars,
                    heap_vars>>
  \/ /\ which = "FreeList"
     /\ Free!Next
     /\ UNCHANGED <<which, vars, ForwardVars, UniqueVars, StreamVars, TraceVars,
                    heap_vars>>
  \/ /\ which = "forward_list"
     /\ Forward!Next
     /\ UNCHANGED <<which, vars, FreeVars, UniqueVars, StreamVars, TraceVars,
                    heap_vars>>
  \/ /\ which = "unique_ptr"
     /\ Unique!Next
     /\ UNCHANGED <<which, vars, FreeVars, ForwardVars, StreamVars, TraceVars,
                    heap_vars>>
  \/ /\ which = "ostream"
     /\ Stream!Next
     /\ UNCHANGED <<which, vars, FreeVars, ForwardVars, UniqueVars, TraceVars,
                    heap_vars>>
  \/ /\ which = "kmalloc"
     /\ HeapNext
     /\ UNCHANGED <<which, vars, FreeVars, ForwardVars, UniqueVars, StreamVars, TraceVars>>
  \/ TraceStep

LibrarySpec ==
  LibraryInit /\ [][LibraryNext]_LibraryVars /\ WF_LibraryVars(TraceStep)

\* See OutputStream: a number's text is its numeral.
NumbersReadBack == Stream!NumbersReadBack

\* See OutputStream: registers and the texts between them keep their columns.
DumpsAreAligned == Stream!DumpsAreAligned

\* See OutputStream: the buffer holds a terminated beginning of the text.
BufferHoldsPrefix == Stream!BufferHoldsPrefix

\* See Backtrace: the walk along the stack ends.
BacktraceEnds == which = "backtrace" => Trace!BacktraceEnds
=============================================================================
