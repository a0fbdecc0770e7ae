----------------------------- MODULE MCCmdline -----------------------------
(***************************************************************************)
(* Cmdline for TLC: the words of the commands that change the thread's     *)
(* state, and a command that is pasted with its return.                    *)
(***************************************************************************)
EXTENDS Cmdline

MCPasted == {<<"username", "cr">>, <<"exit", "blank">>}

=============================================================================
