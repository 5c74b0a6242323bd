----------------------------- MODULE MCProgram -----------------------------
(***************************************************************************)
(* The two halves of userprog/process.c on small instances: the processes  *)
(* that start, wait and exit, and the loading of their programs.  They     *)
(* share no state: part picks the one that moves.                          *)
(***************************************************************************)
EXTENDS MCProcess, Loader

VARIABLE part

program_vars == <<part, process_vars, loader_vars>>

Phdr(type, offset, vaddr, filesz, memsz, writable) ==
  [type |-> type, offset |-> offset, vaddr |-> vaddr, filesz |-> filesz,
   memsz |-> memsz, writable |-> writable]
Executable(phdrs) == [found |-> TRUE, valid |-> TRUE, phdrs |-> phdrs]

(* One process only has uninitialised data; the other runs an executable   *)
(* with text and data, one with a segment of two pages, and ones that fail *)
(* at each point: a page mapped twice, the stack's page taken, a read past *)
(* the end of the file, a segment that wraps, no file, no valid header.    *)
MCPrograms ==
  [p \in LoadProcs |->
    IF p = 2 THEN {Executable(<<Phdr("load", 1, 5, 0, 3, TRUE)>>)}
    ELSE {Executable(<<Phdr("load", 0, 4, 3, 3, FALSE), Phdr("ignored", 0, 0, 0, 0, FALSE),
                       Phdr("load", 5, 9, 1, 3, TRUE)>>),
          Executable(<<Phdr("load", 0, 4, 6, 8, FALSE)>>),
          Executable(<<Phdr("load", 0, 4, 1, 3, FALSE), Phdr("load", 1, 5, 1, 1, TRUE)>>),
          Executable(<<Phdr("load", 0, 12, 1, 2, FALSE)>>),
          Executable(<<Phdr("load", 4, 8, 4, 4, FALSE)>>),
          Executable(<<Phdr("load", 0, 4, 1, 1, FALSE), Phdr("load", 0, 12, 0, 22, FALSE)>>),
          [found |-> FALSE, valid |-> FALSE, phdrs |-> <<>>],
          [found |-> TRUE, valid |-> FALSE, phdrs |-> <<>>]}]

ProgramInit ==
  /\ part \in {"process", "loader"}
  /\ ProcessInit /\ LoaderInit
  /\ part # "loader" => lcur = 1

ProgramNext ==
  /\ UNCHANGED part
  /\ \/ part = "process" /\ ProcessNext /\ UNCHANGED loader_vars
     \/ part = "loader" /\ LoaderNext /\ UNCHANGED process_vars

ProgramSpec == ProgramInit /\ [][ProgramNext]_program_vars
=============================================================================
