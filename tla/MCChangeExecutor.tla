-------------------------- MODULE MCChangeExecutor --------------------------
(* Instances of ChangeExecutor for TLC: a file replacement, a patch of the  *)
(* same file, a patch that creates it and a command.                        *)
EXTENDS ChangeExecutor

CONSTANTS file, patch, create, command

MCKind == [p \in Proposals |-> CASE p = file    -> "file"
                                 [] p = patch   -> "patch"
                                 [] p = create  -> "patch"
                                 [] OTHER       -> "command"]
MCBase == [p \in Proposals |-> IF p = patch THEN "orig" ELSE "none"]
MCHashOrder == [p \in Proposals |-> CASE p = file    -> 1
                                      [] p = patch   -> 2
                                      [] p = create  -> 3
                                      [] OTHER       -> 4]
=============================================================================
