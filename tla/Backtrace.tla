----------------------------- MODULE Backtrace -----------------------------
(***************************************************************************)
(* show_backtrace() (src/kernel/libkernelcxx/src/backtrace.cpp): the walk  *)
(* along saved frame pointers in a stack that may hold anything, as it is  *)
(* called when the kernel panics.                                          *)
(*                                                                         *)
(* Addresses are 1 .. StackSize in the stack of the kernel and 0           *)
(* elsewhere.  TMP is a first frame outside it: the one that the function  *)
(* makes up of the registers of an interrupt, or any that ebp points to.   *)
(***************************************************************************)
EXTENDS Integers

CONSTANTS StackSize, TMP

VARIABLES
  callers_ebp,      \* callers_ebp of the frame at each address, and of TMP
  inside_code,      \* is_inside_code(return_address) of those in the stack
  frame,            \* as in the code; 0 before the call
  returned

vars == <<callers_ebp, inside_code, frame, returned>>

Stack == 1 .. StackSize

is_inside_stack(ptr) == ptr \in Stack

Init ==
  /\ callers_ebp \in [Stack \cup {TMP} -> Stack \cup {0}]
  /\ inside_code \in [Stack -> BOOLEAN]
  /\ frame = 0
  /\ returned = FALSE

\* Without an instruction pointer the first frame is where ebp points to,
\* unchecked, the function's own if none is given; with one it is made up.
show_backtrace ==
  /\ frame = 0
  /\ ~returned
  /\ frame' \in Stack \cup {TMP}
  /\ UNCHANGED <<callers_ebp, inside_code, returned>>

\* Mutant of next_frame: only the condition of the loop ends it.
next_frame_anyway ==
  LET new_frame == callers_ebp[frame]
  IN  /\ frame # 0
      /\ ~returned
      /\ frame' = new_frame
      /\ returned' = ~(is_inside_stack(new_frame) /\ inside_code[new_frame])
      /\ UNCHANGED <<callers_ebp, inside_code>>

\* One round of the loop.
next_frame ==
  LET new_frame == callers_ebp[frame]
  IN  /\ frame # 0
      /\ ~returned
      /\ frame' = new_frame
      /\ returned' = \/ frame = new_frame
                     \/ ~(is_inside_stack(new_frame) /\ inside_code[new_frame])
      /\ UNCHANGED <<callers_ebp, inside_code>>

Next == show_backtrace \/ next_frame

Spec == Init /\ [][Next]_vars /\ WF_vars(Next)

\* The walk ends if no frame in the stack was saved by a frame above it, as
\* in a stack that is intact or cut off, and even if a frame names itself
\* (backtrace.cpp:89-98).
BacktraceEnds ==
  (\A f \in Stack : callers_ebp[f] # 0 => callers_ebp[f] >= f) => <>returned
=============================================================================
