----------------------------- MODULE MCService ------------------------------
(***************************************************************************)
(* An instance of Service for TLC: a table with room for one session, and   *)
(* bodies of two turns of a conversation.                                   *)
(***************************************************************************)
EXTENDS Service, TLC

CONSTANTS s1, s2

\* Outputs worth shortening, the last of them without loss; one the
\* compressors gain nothing on; and a short one.
Big   == Text("big", 20, 10, Short(4, 2, FALSE))
Other == Text("other", 20, 10, Short(4, 2, FALSE))
Json  == Text("json", 20, 10, Short(12, 10, TRUE))
Dense == Text("dense", 20, 10, Short(19, 9, FALSE))
Small == Text("small", 5, 2, Short(4, 1, FALSE))

Out(type, output) == [type |-> type, output |-> output]
Call == "function_call_output"
Shell == "local_shell_call_output"
Patch == "apply_patch_call_output"

\* Plain's outputs stay as they are; Second has one that is not the latest of
\* its type, and two that are replaced.
Plain  == [path |-> "/v1/responses",
           input |-> <<Out("message", NotText), Out(Call, Small), Out(Shell, Dense)>>]
Second == [path |-> "/v1/responses",
           input |-> <<Out(Call, Other), Out(Call, Big), Out(Patch, Json)>>]
First  == [path |-> "/v1/responses", input |-> <<Out(Call, Big), Out(Shell, NotText)>>]

\* Each setup has what one part of the process is about; the last has it all.
Reporting == [rotation |-> FALSE, maxAge |-> 0, sessions |-> {s1, s2, NoSource},
              bodies |-> {Plain}, clients |-> 3, hours |-> 2]
Logging   == [rotation |-> TRUE, maxAge |-> 0, sessions |-> {NoSource},
              bodies |-> {Plain}, clients |-> 2, hours |-> 1]
Storing   == [rotation |-> FALSE, maxAge |-> 1, sessions |-> {NoSource},
              bodies |-> {First, Second}, clients |-> 2, hours |-> 3]
Together  == [rotation |-> TRUE, maxAge |-> 1, sessions |-> {s1},
              bodies |-> {First}, clients |-> 1, hours |-> 3]
MCSetups  == {Reporting, Logging, Storing, Together}

Symmetry == Permutations(Requests)
=============================================================================
